---- MODULE Spec2Model ----
(***************************************************************************)
(* webapp2ext.swagger: the schema registry (Api), the per-resource model   *)
(* closure (_Resource.add_model) and the deep conversion (to_dict).        *)
(*                                                                         *)
(* Python values are records [t |-> class tag, v |-> payload].  A string   *)
(* is a sequence of tokens, so that formatting and splitting are real      *)
(* operations: "%s#/%s" % (p, n) is p \o <<"#", "/">> \o <<n>>.  Mapping   *)
(* keys (property names, registry names, field names) are TLA+ strings.    *)
(***************************************************************************)
EXTENDS Naturals, Sequences, FiniteSets, TLC

VARIABLES
    host,        \* Api.host (after rstrip)
    path,        \* Api.path (after rstrip)
    version,     \* Api.version
    _schemas,    \* Api._schemas: name -> None | Object
    store,       \* Api._resolver.store[schema_path]: the validation snapshot
    held,        \* a property node the caller keeps and may pass to several calls
    resources,   \* Api.resources: path -> _Resource
    pc,          \* "idle", or the position inside operation()/add_model()
    cur,         \* the call in progress: resource, endpoint, pending Operation
    todo,        \* the add_model calls operation() still has to make
    skip,        \* add_model: local `skip`
    to_check,    \* add_model: local deque `to_check`
    expanded,    \* history: how many times _check_type expanded each name
    before,      \* history: the state a call started from
    raised,      \* the error the last call ended with, or "none"
    heap,        \* object store of the deep walk: address -> object
    nodes,       \* to_dict: local deque `nodes` (addresses)
    wk           \* to_dict: position of the walk (root, clone, node, keys left)

vars == <<host, path, version, _schemas, store, held, resources, pc, cur,
          todo, skip, to_check, expanded, before, raised, heap, nodes, wk>>

-----------------------------------------------------------------------------
(* Python values *)

None == [t |-> "none", v |-> 0]
Bool(b) == [t |-> "bool", v |-> b]
Num(n) == [t |-> "int", v |-> n]
Str(s) == [t |-> "str", v |-> s]
S(tok) == Str(<<tok>>)
List(s) == [t |-> "list", v |-> s]
Tuple(s) == [t |-> "tuple", v |-> s]
Dict(f) == [t |-> "dict", v |-> f]
Obj(cls, fields) == [t |-> cls, v |-> fields]

EmptyMap == <<>>

\* the mapping key a one-token string denotes
Key(s) == s.v[1]

\* classes that define to_dict
NodeClasses ==
    {"String", "Int", "Array", "Object", "Param", "_Ref", "Message",
     "Operation", "_EndPoint"}

\* hasattr(x, "to_dict")
HasToDict(x) == x.t \in NodeClasses

\* hasattr(x, "copy"): dict (a Python 2 list has no copy method)
HasCopy(x) == x.t = "dict"

\* isinstance(x, (list, tuple,))
IsListOrTuple(x) == x.t \in {"list", "tuple"}

\* truth value of x in `if x:`
Truthy(x) ==
    CASE x.t = "none" -> FALSE
      [] x.t = "bool" -> x.v
      [] x.t = "int" -> x.v # 0
      [] x.t \in {"str", "list", "tuple"} -> Len(x.v) > 0
      [] x.t = "dict" -> DOMAIN x.v # {}
      [] OTHER -> TRUE

_primitives ==
    {"array", "boolean", "integer", "number", "null", "object", "string", "void"}

JSON_SCHEMA == "json-schema"
SWAGGER_DOC == "api-doc"

\* camelCase(word) on the attribute names the classes set
camelCase(word) ==
    CASE word = "param_type" -> "paramType"
      [] word = "pattern_properties" -> "patternProperties"
      [] word = "additional_properties" -> "additionalProperties"
      [] word = "unique_items" -> "uniqueItems"
      [] word = "exclusive_minimum" -> "exclusiveMinimum"
      [] word = "exclusive_maximum" -> "exclusiveMaximum"
      [] OTHER -> word

-----------------------------------------------------------------------------
(* Type nodes: Obj(class, __dict__) *)

\* _Type.__init__
TypeInit(name, type_, description, format, required, default, param_type, enum) ==
    [name |-> name, type |-> type_, description |-> description,
     format |-> format, required |-> required, default |-> default,
     enum |-> enum, param_type |-> param_type]

\* String(required=r, name=n, param_type=p)
String(required) ==
    Obj("String", TypeInit(None, S("string"), None, None, required, None, None, None))

\* _Number.__init__ then Int.__init__ (long_=False)
Int(required) ==
    Obj("Int",
        [type |-> S("integer"), format |-> None, minimum |-> None,
         maximum |-> None, exclusive_minimum |-> None,
         exclusive_maximum |-> None]
        @@ TypeInit(None, S("number"), None, None, required, None, None, None))

\* Array(items, required=r)
Array(items, required) ==
    Obj("Array",
        [items |-> items, unique_items |-> None]
        @@ TypeInit(None, S("array"), None, None, required, None, None, None))

\* Param(type_)
Param(type_) ==
    Obj("Param", TypeInit(None, Str(<<type_>>), None, None, None, None, None, None))

\* _Ref(name, required)
_Ref(name, required) == Obj("_Ref", [name |-> name, required |-> required])

\* Message(code, message)
Message(code, message) == Obj("Message", [code |-> Num(code), message |-> S(message)])

\* (mutant) Object.__init__ without the check of the required names
ObjectRaises_Never(properties, required) == FALSE

\* Object.__init__ raises ValueError: a required name is not a property
ObjectRaises(properties, required) ==
    LET props == IF properties = None THEN EmptyMap ELSE properties.v
    IN  \E i \in 1..Len(required.v) : Key(required.v[i]) \notin DOMAIN props

\* Object.__init__ (when it does not raise)
Object(id, properties, required, pattern_properties, additional_properties) ==
    Obj("Object",
        [id |-> id,
         properties |-> IF properties = None THEN Dict(EmptyMap) ELSE properties,
         required |-> IF Truthy(required) THEN required ELSE None,
         pattern_properties |-> pattern_properties,
         additional_properties |->
             IF properties = None THEN Bool(TRUE) ELSE additional_properties]
        @@ TypeInit(None, S("object"), None, None, required, None, None, None))

-----------------------------------------------------------------------------
(* Conversion to plain values *)

\* _Context(api, output)
_Context(api, output) == [api |-> api, output |-> output]

\* _Type.to_dict
TypeToDict(x) ==
    LET set == {f \in DOMAIN x.v : x.v[f] # None}
    IN  Dict([k \in {camelCase(f) : f \in set} |->
                 x.v[CHOOSE f \in set : camelCase(f) = k]])

\* (mutant) _Ref.to_dict that formats the pointer without its "/"
RefToDict_NoSlash(x, ctx) ==
    Dict("$ref" :>
         IF ctx.output = SWAGGER_DOC
         THEN x.v.name
         ELSE Str(ctx.api.schema_path \o <<"#">> \o x.v.name.v))

\* _Ref.to_dict
RefToDict(x, ctx) ==
    Dict("$ref" :>
         IF ctx.output = SWAGGER_DOC
         THEN x.v.name
         ELSE Str(ctx.api.schema_path \o <<"#", "/">> \o x.v.name.v))

\* Message.to_dict
MessageToDict(x) == Dict([code |-> x.v.code, message |-> x.v.message])

\* Operation.to_dict
OperationToDict(x) ==
    LET result == [method |-> x.v.method, summary |-> x.v.summary,
                   type |-> x.v.type, nickname |-> x.v.alias,
                   parameters |-> x.v.parameters,
                   responseMessages |-> x.v.responses]
    IN  Dict(IF Truthy(x.v.items) THEN result @@ ("items" :> x.v.items) ELSE result)

\* _EndPoint.to_dict
EndPointToDict(x) == Dict([path |-> x.v.swagger_path, operations |-> x.v.operations])

\* x.to_dict(ctx), by class
NodeToDict(x, ctx) ==
    CASE x.t = "_Ref" -> RefToDict(x, ctx)
      [] x.t = "Message" -> MessageToDict(x)
      [] x.t = "Operation" -> OperationToDict(x)
      [] x.t = "_EndPoint" -> EndPointToDict(x)
      [] OTHER -> TypeToDict(x)

RECURSIVE _to_dict(_, _)
\* _walk_dict: every value of the (copied) mapping is converted in place
_walk_dict(ctx, node) == Dict([k \in DOMAIN node.v |-> _to_dict(ctx, node.v[k])])

\* _walk_list: every element of the (copied) sequence is converted in place
_walk_list(ctx, node) == List([i \in 1..Len(node.v) |-> _to_dict(ctx, node.v[i])])

\* _to_dict: what the walk leaves at node[key] once the queue is empty
_to_dict(ctx, x) ==
    IF HasToDict(x) THEN _walk_dict(ctx, NodeToDict(x, ctx))
    ELSE IF HasCopy(x) THEN _walk_dict(ctx, x)
    ELSE IF IsListOrTuple(x) THEN _walk_list(ctx, x)
    ELSE x

\* to_dict(root, ctx)
to_dict(root, ctx) ==
    _walk_dict(ctx, IF HasToDict(root) THEN NodeToDict(root, ctx) ELSE root)

-----------------------------------------------------------------------------
(* Api: the schema registry *)

\* Api.base_path
base_path(h, p) == h \o p

\* Api.schema_path
schema_path(h, p) == base_path(h, p) \o <<"/json-schemas">>

\* the Api as a rendering context sees it
ApiOf(h, p) == [schema_path |-> schema_path(h, p)]

\* names of the registry bound to a definition
Defined(sch) == {n \in DOMAIN sch : sch[n] # None}

\* (mutant) Api.schemas without the `if s is None: continue`
schemas_NoSkip(h, p, sch) ==
    LET head == [id |-> Str(schema_path(h, p) \o <<"#">>)]
                @@ ("$schema" :> S("http://json-schema.org/draft-04/schema#"))
        doc == [k \in DOMAIN head \cup DOMAIN sch |->
                   IF k \in DOMAIN sch THEN sch[k] ELSE head[k]]
    IN  to_dict(Dict(doc), _Context(ApiOf(h, p), JSON_SCHEMA))

\* Api.schemas
schemas(h, p, sch) ==
    LET head == [id |-> Str(schema_path(h, p) \o <<"#">>)]
                @@ ("$schema" :> S("http://json-schema.org/draft-04/schema#"))
        doc == [k \in DOMAIN head \cup Defined(sch) |->
                   IF k \in Defined(sch) THEN sch[k] ELSE head[k]]
    IN  to_dict(Dict(doc), _Context(ApiOf(h, p), JSON_SCHEMA))

RECURSIVE Orders(_)
\* all orders a mapping with key set K can be iterated in
Orders(K) ==
    IF K = {} THEN {<<>>}
    ELSE UNION {{<<k>> \o o : o \in Orders(K \ {k})} : k \in K}

\* an argument that is the node the caller holds, rather than a fresh node
Held == [t |-> "held", v |-> 0]
ArgNode(x, h) == IF x = Held THEN h ELSE x

\* Api.schema: `properties = {} if properties is None else properties`
ArgProperties(properties, h) ==
    IF properties = None THEN EmptyMap
    ELSE [k \in DOMAIN properties.v |-> ArgNode(properties.v[k], h)]

\* Api.schema: kw['required'] once the loop over properties.iteritems() ends;
\* order is the order the mapping is iterated in
SchemaRequired(props, kwrequired, order) ==
    LET hit == SelectSeq(order, LAMBDA k : Truthy(props[k].v.required))
    IN  List(kwrequired.v \o [i \in 1..Len(hit) |-> S(hit[i])])

\* Api.schema: the property nodes once the loop has set prop.required = None
SchemaProperties(props) ==
    [k \in DOMAIN props |-> [props[k] EXCEPT !.v.required = None]]

\* Api.schema: the definition it registers
SchemaObject(name, props, required, pattern_properties, additional_properties) ==
    Object(S(name), Dict(SchemaProperties(props)), required, pattern_properties,
           additional_properties)

-----------------------------------------------------------------------------
(* jsonschema: RefResolver and Draft4Validator, for the keywords rendered *)

\* position of the first token tok in s, 0 when there is none
IndexOf(s, tok) ==
    IF \E i \in 1..Len(s) : s[i] = tok
    THEN CHOOSE i \in 1..Len(s) : s[i] = tok /\ \A j \in 1..(i - 1) : s[j] # tok
    ELSE 0

\* RefResolver.resolving(ref): the resolved document node, or None when the
\* uri is not in the store or the pointer names nothing
Resolve(uri, doc, ref) ==
    LET h == IndexOf(ref, "#")
        u == IF h = 0 THEN ref ELSE SubSeq(ref, 1, h - 1)
        frag == IF h = 0 THEN <<>> ELSE SubSeq(ref, h + 1, Len(ref))
    IN  IF u # <<>> /\ u # uri THEN None
        ELSE IF Len(frag) = 2 /\ frag[1] = "/" /\ frag[2] \in DOMAIN doc.v
             THEN doc.v[frag[2]]
             ELSE None

\* the Draft 4 `type` keyword
TypeOk(type, inst) ==
    CASE type = S("string") -> inst.t = "str"
      [] type = S("integer") -> inst.t = "int"
      [] type = S("number") -> inst.t = "int"
      [] type = S("boolean") -> inst.t = "bool"
      [] type = S("object") -> inst.t = "dict"
      [] type = S("array") -> inst.t \in {"list", "tuple"}
      [] OTHER -> FALSE

\* the keywords of a rendered type node in the order a dict of 8 slots yields
\* them: by slot hash(key) & 7, for the str hash of CPython 2 (the same on 32
\* and 64 bit builds; Python 2 does not randomize hashes unless asked to):
\* additionalProperties 0, items 1, required 3, type 4, properties 5 (id,
\* which shares slot 5, lands after it), $ref 7
KeywordOrder ==
    <<"additionalProperties", "items", "required", "type", "properties", "id",
      "$ref">>

\* (mutant) an iteration that meets `properties` before `required`
iterkeys_PropertiesFirst(K) ==
    SelectSeq(<<"properties", "additionalProperties", "items", "required",
                "type", "id", "$ref">>, LAMBDA k : k \in K)

\* iteritems(_schema): the keywords among the keys K, in dict order
iterkeys(K) == SelectSeq(KeywordOrder, LAMBDA k : k \in K)

\* what comes of one step followed by another: the first failure ends it
Then(first, second) ==
    (first \ {"none"}) \cup (IF "none" \in first THEN second ELSE {})

RECURSIVE iter_errors(_, _, _, _)
RECURSIVE Keywords(_, _, _, _, _)
RECURSIVE Items(_, _, _, _)
\* Draft4Validator.validate: the exception the first failure of iter_errors
\* raises, "none" when there is no failure. Keywords are met in the order
\* of iterkeys; the properties of the instance in any order (the caller's
\* mapping), the items of a list in sequence
iter_errors(uri, doc, schema, inst) ==
    IF "$ref" \in DOMAIN schema.v
    THEN LET r == Resolve(uri, doc, schema.v["$ref"].v)
         IN  IF r = None THEN {"RefResolutionError"}
             ELSE iter_errors(uri, doc, r, inst)
    ELSE Keywords(uri, doc, schema.v, inst, iterkeys(DOMAIN schema.v))

\* the keywords ks of the schema sc, in turn
Keywords(uri, doc, sc, inst, ks) ==
    IF ks = <<>> THEN {"none"}
    ELSE LET k == Head(ks)
             VE(ok) == IF ok THEN {"none"} ELSE {"ValidationError"}
             subs == {iter_errors(uri, doc, sc["properties"].v[p], inst.v[p]) :
                        p \in DOMAIN sc["properties"].v \cap DOMAIN inst.v}
             one ==
               CASE k = "type" -> VE(TypeOk(sc["type"], inst))
                 [] k = "required" /\ inst.t = "dict" /\ sc["required"].t = "list" ->
                      VE(\A i \in 1..Len(sc["required"].v) :
                            Key(sc["required"].v[i]) \in DOMAIN inst.v)
                 [] k = "additionalProperties" /\ inst.t = "dict"
                    /\ sc["additionalProperties"] = Bool(FALSE) ->
                      VE(DOMAIN inst.v \subseteq
                           (IF "properties" \in DOMAIN sc
                            THEN DOMAIN sc["properties"].v ELSE {}))
                 [] k = "properties" /\ inst.t = "dict" ->
                      (UNION subs \ {"none"})
                      \cup (IF \A o \in subs : "none" \in o THEN {"none"} ELSE {})
                 [] k = "items" /\ inst.t \in {"list", "tuple"} ->
                      Items(uri, doc, sc["items"], inst.v)
                 [] OTHER -> {"none"}
         IN  Then(one, Keywords(uri, doc, sc, inst, Tail(ks)))

\* the `items` keyword: each element of the instance in turn
Items(uri, doc, schema, elems) ==
    IF elems = <<>> THEN {"none"}
    ELSE Then(iter_errors(uri, doc, schema, Head(elems)),
              Items(uri, doc, schema, Tail(elems)))

\* Api.validate: the exceptions it can end with ("none": it returns)
ValidateOutcomes(uri, doc, schema, data) ==
    LET r == Resolve(uri, doc, <<"#", "/", schema>>)
    IN  IF r = None THEN {"RefResolutionError"}
        ELSE iter_errors(uri, doc, r, data)

-----------------------------------------------------------------------------
(* Api: construction and the registry operations *)

RECURSIVE rstrip(_, _)
\* str.rstrip(c)
rstrip(s, c) ==
    IF s # <<>> /\ s[Len(s)] = c THEN rstrip(SubSeq(s, 1, Len(s) - 1), c) ELSE s

\* variables of the deep walk, of the model closure and of the caller
walkVars == <<heap, nodes, wk>>
loopVars == <<todo, skip, to_check, expanded, before>>

\* Api.__init__(host, path, version): host and path, for an absolute path
ApiPaths(hostArg, pathArg) ==
    /\ pathArg[1] = "/"
    /\ host = rstrip(hostArg, "/")
    /\ path = rstrip(pathArg, "/")

\* Api.__init__(host, path, version)
ApiInit(hostArg, pathArg, versionArg) ==
    /\ ApiPaths(hostArg, pathArg)
    /\ version = versionArg
    /\ resources = EmptyMap
    /\ _schemas = EmptyMap
    /\ store = Dict(EmptyMap)

\* no add_model call is in progress
NoCall == [resource |-> <<>>, type_ |-> "", models |-> {}]

\* nothing is in progress; the caller holds one node, String(required=True)
Idle ==
    /\ held = String(Bool(TRUE))
    /\ pc = "idle"
    /\ cur = [op |-> "Api"]
    /\ todo = <<>>
    /\ skip = {}
    /\ to_check = <<>>
    /\ expanded = EmptyMap
    /\ before = NoCall
    /\ raised = "none"
    /\ heap = EmptyMap
    /\ nodes = <<>>
    /\ wk = None

\* (mutant) Api._update_resolver that keeps the old snapshot
_update_resolver_Stale(st, h, p, sch) == st

\* Api._update_resolver: the new value of _resolver.store[schema_path]
_update_resolver(st, h, p, sch) == schemas(h, p, sch)

\* (mutant) Api.ref that stores None under the name whatever is there
ref_Overwrite(name) ==
    /\ pc = "idle"
    /\ _schemas' = [n \in DOMAIN _schemas \cup {name} |->
                       IF n = name THEN None ELSE _schemas[n]]
    /\ cur' = [op |-> "ref", name |-> name]
    /\ raised' = "none"
    /\ UNCHANGED <<host, path, version, store, held, resources, pc, loopVars,
                   walkVars>>

\* Api.ref(name, required): the placeholder it reserves (the _Ref it returns
\* is an argument of later calls)
ref(name) ==
    /\ pc = "idle"
    /\ _schemas' = IF name \in DOMAIN _schemas THEN _schemas
                   ELSE (name :> None) @@ _schemas
    /\ cur' = [op |-> "ref", name |-> name]
    /\ raised' = "none"
    /\ UNCHANGED <<host, path, version, store, held, resources, pc, loopVars,
                   walkVars>>

\* Api.schema(name, properties, additional_properties, **kw), kw holding
\* required and pattern_properties; order: the iteration order of properties
schema(name, properties, additional_properties, kwrequired, pattern_properties, order) ==
    LET props == ArgProperties(properties, held)
        required == SchemaRequired(props, kwrequired, order)
        usesHeld == \E k \in DOMAIN props : properties.v[k] = Held
    IN  /\ pc = "idle"
        /\ cur' = [op |-> "schema", name |-> name, properties |-> properties,
                   required |-> kwrequired]
        /\ held' = IF usesHeld THEN [held EXCEPT !.v.required = None] ELSE held
        /\ IF ObjectRaises(Dict(SchemaProperties(props)), required)
           THEN /\ raised' = "ValueError"
                /\ UNCHANGED <<_schemas, store>>
           ELSE /\ raised' = "none"
                /\ _schemas' =
                       (name :> SchemaObject(name, props, required,
                                             pattern_properties,
                                             additional_properties))
                       @@ _schemas
                /\ store' = _update_resolver(store, host, path, _schemas')
        /\ UNCHANGED <<host, path, version, resources, pc, loopVars, walkVars>>

\* Api.validate(schema, data)
validate(name, data) ==
    /\ pc = "idle"
    /\ cur' = [op |-> "validate", name |-> name, data |-> data]
    /\ raised' \in ValidateOutcomes(schema_path(host, path), store, name, data)
    /\ UNCHANGED <<host, path, version, _schemas, store, held, resources, pc,
                   loopVars, walkVars>>

-----------------------------------------------------------------------------
(* _Resource, _EndPoint, Operation: the model closure *)

\* _Resource.__init__
_Resource(rpath, desc) ==
    [path |-> rpath, description |-> desc, apis |-> EmptyMap, models |-> {}]

RECURSIVE swagger_path(_)
\* _EndPoint.param_pattern.sub(r"{\1}", path): <name> and <name:regex>
swagger_path(s) ==
    IF s = <<>> THEN <<>>
    ELSE IF s[1] = "<" /\ Len(s) >= 3 /\ s[3] = ">"
    THEN <<"{", s[2], "}">> \o swagger_path(SubSeq(s, 4, Len(s)))
    ELSE IF s[1] = "<" /\ Len(s) >= 5 /\ s[3] = ":" /\ s[5] = ">"
    THEN <<"{", s[2], "}">> \o swagger_path(SubSeq(s, 6, Len(s)))
    ELSE <<s[1]>> \o swagger_path(Tail(s))

\* _EndPoint.__init__
_EndPoint(epath) ==
    Obj("_EndPoint",
        [path |-> Str(epath), swagger_path |-> Str(swagger_path(epath)),
         operations |-> List(<<>>), handler |-> None])

\* Operation.__init__
Operation(method, summary, type_, alias, items, parameters, responses) ==
    Obj("Operation",
        [method |-> method, summary |-> summary, type |-> type_,
         items |-> items, alias |-> alias, parameters |-> parameters,
         responses |-> responses])

\* the names a property value makes _check_type queue
RefNames(prop) ==
    IF prop.t = "_Ref" THEN <<Key(prop.v.name)>>
    ELSE IF prop.t = "Array" /\ prop.v.items.t = "_Ref"
    THEN <<Key(prop.v.items.v.name)>>
    ELSE <<>>

RECURSIVE Chain(_, _)
\* the names queued for the values m[order[1]], m[order[2]], ...
Chain(m, order) ==
    IF order = <<>> THEN <<>>
    ELSE RefNames(m[Head(order)]) \o Chain(m, Tail(order))

\* (mutant) _check_type without its `if type_ in skip: return ()`
Skips_Never(type_, skipped) == FALSE

\* _Resource._check_type: `if type_ in skip`
Skips(type_, skipped) == type_ \in skipped

\* (mutant) _check_type that follows _Ref properties only, not Array items
_check_type_NoArray(sch, type_, skipped, o1, o2) ==
    IF Skips(type_, skipped) THEN <<>>
    ELSE IF sch[type_] = None THEN <<>>
    ELSE LET props == sch[type_].v.properties.v
             pp == IF Truthy(sch[type_].v.pattern_properties)
                   THEN sch[type_].v.pattern_properties.v ELSE EmptyMap
             refs(m) == [k \in DOMAIN m |-> IF m[k].t = "_Ref" THEN m[k] ELSE None]
         IN  Chain(refs(props), o1) \o Chain(refs(pp), o2)

\* _Resource._check_type(type_, skip); o1, o2: the orders in which
\* properties and pattern_properties are iterated
_check_type(sch, type_, skipped, o1, o2) ==
    IF Skips(type_, skipped) THEN <<>>
    ELSE IF sch[type_] = None THEN <<>>
    ELSE LET pp == IF Truthy(sch[type_].v.pattern_properties)
                   THEN sch[type_].v.pattern_properties.v ELSE EmptyMap
         IN  Chain(sch[type_].v.properties.v, o1) \o Chain(pp, o2)

\* the iteration orders _check_type can meet for type_
CheckOrders(sch, type_) ==
    IF sch[type_] = None THEN {<<<<>>, <<>>>>}
    ELSE Orders(DOMAIN sch[type_].v.properties.v)
         \X Orders(IF Truthy(sch[type_].v.pattern_properties)
                   THEN DOMAIN sch[type_].v.pattern_properties.v ELSE {})

\* (mutant) add_model without `if type_ in _primitives: return`
AddModelReturns_NoPrimitive(type_, models) == type_ \in models

\* _Resource.add_model: the two early returns
AddModelReturns(type_, models) == type_ \in _primitives \/ type_ \in models

\* _Resource.add_model: raise ValueError("No schema with that id")
AddModelRaises(type_, sch) == type_ \notin DOMAIN sch

\* _Resource.add_model up to the loop, for the resource at rpath; rest: the
\* add_model calls the caller makes after this one
Enter(rpath, type_, rest) ==
    LET models == resources[rpath].models
    IN  /\ before' = [resource |-> rpath, type_ |-> type_, models |-> models]
        /\ expanded' = EmptyMap
        /\ IF AddModelReturns(type_, models)
           THEN /\ pc' = "call"
                /\ todo' = rest
                /\ raised' = "none"
                /\ UNCHANGED <<skip, to_check>>
           ELSE IF AddModelRaises(type_, _schemas)
           THEN /\ pc' = "idle"
                /\ todo' = <<>>
                /\ raised' = "ValueError"
                /\ UNCHANGED <<skip, to_check>>
           ELSE /\ pc' = "loop"
                /\ todo' = rest
                /\ raised' = "none"
                /\ skip' = models
                /\ to_check' = <<type_>>

\* (mutant) Api.resource that makes a new _Resource on every call
resources_set(res, rpath, desc) == (rpath :> _Resource(rpath, desc)) @@ res

\* Api.resource: `if path not in self.resources: self.resources[path] = ...`
resources_setdefault(res, rpath, desc) ==
    IF rpath \in DOMAIN res THEN res
    ELSE (rpath :> _Resource(rpath, desc)) @@ res

\* Api.resource(path, desc)
resource(rpath, desc) ==
    /\ pc = "idle"
    /\ resources' = resources_setdefault(resources, rpath, desc)
    /\ cur' = [op |-> "resource", resource |-> rpath, desc |-> desc]
    /\ raised' = "none"
    /\ UNCHANGED <<host, path, version, _schemas, store, held, pc, loopVars,
                   walkVars>>

\* _Resource.endpoint(path)
endpoint(rpath, epath) ==
    /\ pc = "idle"
    /\ rpath \in DOMAIN resources
    /\ resources' =
           IF epath \in DOMAIN resources[rpath].apis THEN resources
           ELSE [resources EXCEPT ![rpath].apis = (epath :> _EndPoint(epath)) @@ @]
    /\ cur' = [op |-> "endpoint", resource |-> rpath, endpoint |-> epath]
    /\ raised' = "none"
    /\ UNCHANGED <<host, path, version, _schemas, store, held, pc, loopVars,
                   walkVars>>

\* the types of the parameters that are Param instances
RECURSIVE ParamTypes(_)
ParamTypes(parameters) ==
    IF parameters = <<>> THEN <<>>
    ELSE (IF Head(parameters).t = "Param" THEN <<Key(Head(parameters).v.type)>>
          ELSE <<>>) \o ParamTypes(Tail(parameters))

\* str.upper, for the method names of a request handler
upper(name) ==
    CASE name = "get" -> "GET"
      [] name = "post" -> "POST"
      [] name = "put" -> "PUT"
      [] name = "delete" -> "DELETE"
      [] OTHER -> name

RECURSIVE lstrip(_)
\* a docstring is a sequence of lines: strip() drops the blank lines around it
lstrip(doc) == IF doc # <<>> /\ Head(doc) = "" THEN lstrip(Tail(doc)) ELSE doc

\* meth.__doc__.strip().splitlines()[0]
doc_summary(doc) == Head(lstrip(doc))

\* _EndPoint.operation(type_, alias, items, parameters, responses) applied to
\* the method meth: the call and its first add_model; was: the resource as
\* the call found it
operation(rpath, epath, type_, alias, items, parameters, responses, meth) ==
    /\ pc = "idle"
    /\ rpath \in DOMAIN resources
    /\ epath \in DOMAIN resources[rpath].apis
    /\ cur' = [op |-> "operation", resource |-> rpath, endpoint |-> epath,
               type_ |-> type_, alias |-> alias, items |-> items,
               parameters |-> parameters, responses |-> responses,
               meth |-> meth, was |-> resources[rpath]]
    /\ Enter(rpath, IF Truthy(items) THEN Key(items.v.name) ELSE type_,
             ParamTypes(parameters.v))
    /\ UNCHANGED <<host, path, version, _schemas, store, held, resources,
                   walkVars>>

\* _EndPoint.operation: `for param in parameters`, the next add_model
operation_param ==
    /\ pc = "call"
    /\ todo # <<>>
    /\ Enter(cur.resource, Head(todo), Tail(todo))
    /\ UNCHANGED <<host, path, version, _schemas, store, held, resources, cur,
                   walkVars>>

\* _Resource.add_model(type_), called directly
add_model(rpath, type_) ==
    /\ pc = "idle"
    /\ rpath \in DOMAIN resources
    /\ cur' = [op |-> "add_model", resource |-> rpath, type_ |-> type_]
    /\ Enter(rpath, type_, <<>>)
    /\ UNCHANGED <<host, path, version, _schemas, store, held, resources,
                   walkVars>>

\* (mutant) add_model that restarts the closure at the name it visits
models_replace(models, name) == {name}

\* _Resource.add_model: `self.models.add(name)`
models_add(models, name) == models \cup {name}

\* _Resource.add_model: one turn of `while len(to_check) > 0`
add_model_loop ==
    /\ pc = "loop"
    /\ LET name == to_check[Len(to_check)]
           rest == SubSeq(to_check, 1, Len(to_check) - 1)
       IN  \E o \in CheckOrders(_schemas, name) :
             /\ to_check' = rest \o _check_type(_schemas, name, skip, o[1], o[2])
             /\ skip' = skip \cup {name}
             /\ resources' = [resources EXCEPT
                                 ![before.resource].models = models_add(@, name)]
             /\ expanded' = IF Skips(name, skip) THEN expanded
                            ELSE (name :> (IF name \in DOMAIN expanded
                                           THEN expanded[name] + 1 ELSE 1))
                                 @@ expanded
             /\ pc' = IF to_check' = <<>> THEN "call" ELSE "loop"
    /\ UNCHANGED <<host, path, version, _schemas, store, held, cur, todo, before,
                   raised, walkVars>>

\* the end of the call: add_model returns to its caller, or the decorator
\* operation() returned is applied and appends the Operation
deco ==
    /\ pc = "call"
    /\ todo = <<>>
    /\ pc' = "idle"
    /\ resources' =
           IF cur.op = "operation"
           THEN [resources EXCEPT
                    ![cur.resource].apis[cur.endpoint].v.operations.v =
                        Append(@, Operation(S(upper(cur.meth.name)),
                                            S(doc_summary(cur.meth.doc)),
                                            S(cur.type_), cur.alias, cur.items,
                                            cur.parameters, cur.responses))]
           ELSE resources
    /\ skip' = {}
    /\ to_check' = <<>>
    /\ expanded' = EmptyMap
    /\ before' = NoCall
    /\ UNCHANGED <<host, path, version, _schemas, store, held, cur, todo, raised,
                   walkVars>>

-----------------------------------------------------------------------------
(* The registry with validation: bounded arguments *)

HostArgs == {<<"http://example.com", "/">>}
PathArgs == {<<"/", "api", "/", "v1", "/">>}
VersionArgs == {S("1")}

SchemaNames == {"Student", "StudentList"}

SchemaArg(properties, additional_properties, required) ==
    [properties |-> properties, additional_properties |-> additional_properties,
     required |-> required]

\* arguments of Api.schema; refs name registry keys, as Api.ref returns them.
\* `required` is absent ([]), names a property, or names no property
SchemaArgs(keys) ==
    {SchemaArg(None, Bool(FALSE), List(<<>>)),
     SchemaArg(Dict([name |-> String(Bool(TRUE)), id |-> Int(Bool(TRUE))]),
               Bool(FALSE), List(<<>>)),
     SchemaArg(Dict([name |-> String(None)]), Bool(TRUE), List(<<S("name")>>)),
     SchemaArg(Dict([name |-> Held]), Bool(FALSE), List(<<>>)),
     SchemaArg(Dict([name |-> String(Bool(TRUE))]), Bool(FALSE),
               List(<<S("nickname")>>))}
    \cup {SchemaArg(Dict([students |-> Array(_Ref(S(n), Bool(FALSE)), Bool(TRUE))]),
                    Bool(FALSE), List(<<>>)) : n \in keys}
    \cup {SchemaArg(Dict([students |-> _Ref(S(n), Bool(FALSE)),
                          name |-> String(Bool(TRUE))]),
                    Bool(FALSE), List(<<>>)) : n \in keys}

Alice == Dict([name |-> S("alice"), id |-> Num(1)])

\* data passed to validate
Instances ==
    {Dict(EmptyMap),
     Alice,
     Dict([name |-> Num(1), id |-> Num(1)]),
     Dict([students |-> List(<<Alice>>)]),
     Dict([students |-> List(<<Dict(EmptyMap)>>)]),
     Dict([students |-> Dict(EmptyMap)])}

RefSchema == \E n \in SchemaNames : ref(n)

DefineSchema ==
    \E n \in SchemaNames, a \in SchemaArgs(DOMAIN _schemas) :
        \E order \in Orders(DOMAIN ArgProperties(a.properties, held)) :
            schema(n, a.properties, a.additional_properties, a.required, None,
                   order)

ValidateSchema == \E n \in SchemaNames, d \in Instances : validate(n, d)

InitSchema == (\E h \in HostArgs, p \in PathArgs, v \in VersionArgs : ApiInit(h, p, v)) /\ Idle

NextSchema == RefSchema \/ DefineSchema \/ ValidateSchema

SpecSchema == InitSchema /\ [][NextSchema]_vars

-----------------------------------------------------------------------------
(* Claims about the registry, rendering and validation (SpecSchema) *)

\* the _Ref a property node carries: itself, or the items of an Array
RefIn(node) ==
    IF node.t = "_Ref" THEN node
    ELSE IF node.t = "Array" /\ node.v.items.t = "_Ref" THEN node.v.items
    ELSE None

\* the definition of n has a property p that carries a _Ref to m
RefersTo(sch, n, p, m) ==
    /\ n \in Defined(sch)
    /\ p \in DOMAIN sch[n].v.properties.v
    /\ RefIn(sch[n].v.properties.v[p]) # None
    /\ RefIn(sch[n].v.properties.v[p]).v.name = S(m)

\* where the rendering of a property node shows that _Ref
RefOut(node, out) == IF node.t = "_Ref" THEN out ELSE out.v["items"]

\* C4: every Reference to N held by a registered definition is rendered as
\* {"$ref": host + path + "/json-schemas" + "#/" + N} in the JSON-Schema
\* document and as {"$ref": N} in Swagger mode; both have the one key $ref.
C4_RefBothModes ==
    \A n \in Defined(_schemas) :
        \A p \in DOMAIN _schemas[n].v.properties.v :
            LET node == _schemas[n].v.properties.v[p]
                json == schemas(host, path, _schemas).v[n].v["properties"].v[p]
                swag == to_dict(_schemas[n],
                                _Context(ApiOf(host, path), SWAGGER_DOC)
                               ).v["properties"].v[p]
                N == RefIn(node).v.name.v
            IN  RefIn(node) # None =>
                  /\ RefOut(node, json) =
                        Dict("$ref" :> Str(host \o path \o <<"/json-schemas">>
                                           \o <<"#", "/">> \o N))
                  /\ RefOut(node, swag) = Dict("$ref" :> Str(N))
                  /\ DOMAIN RefOut(node, json).v = DOMAIN RefOut(node, swag).v

C4_Witness ==
    /\ RefersTo(_schemas, "StudentList", "students", "Student")
    /\ _schemas["StudentList"].v.properties.v["students"].t = "Array"

\* C5: the document of render_all has, besides id and $schema, exactly the
\* defined names as keys, each bound to the rendering of its definition, and
\* no key for a placeholder.
C5_RenderAllEntries ==
    LET doc == schemas(host, path, _schemas)
    IN  /\ DOMAIN doc.v = {"id", "$schema"} \cup Defined(_schemas)
        /\ \A n \in DOMAIN _schemas : _schemas[n] = None => n \notin DOMAIN doc.v
        /\ \A n \in Defined(_schemas) :
               doc.v[n] = to_dict(_schemas[n],
                                  _Context(ApiOf(host, path), JSON_SCHEMA))

C5_Witness ==
    /\ \E n \in DOMAIN _schemas : _schemas[n] = None
    /\ \E n \in DOMAIN _schemas : _schemas[n] # None

\* a call of Api.schema whose `required` names something that is no property
StrayRequired(call) ==
    /\ call.op = "schema"
    /\ \E i \in 1..Len(call.required.v) :
           Key(call.required.v[i]) \notin DOMAIN ArgProperties(call.properties, None)

\* the required names of every registered definition are property names
RequiredAreProperties ==
    \A n \in Defined(_schemas) :
        _schemas[n].v.required # None =>
            \A i \in 1..Len(_schemas[n].v.required.v) :
                Key(_schemas[n].v.required.v[i])
                    \in DOMAIN _schemas[n].v.properties.v

RECURSIVE Conforms(_, _, _)
\* inst is an instance of the type node, read against the registry sch
Conforms(sch, node, inst) ==
    CASE node.t = "String" -> inst.t = "str"
      [] node.t = "Int" -> inst.t = "int"
      [] node.t = "Array" ->
            /\ inst.t = "list"
            /\ \A i \in 1..Len(inst.v) : Conforms(sch, node.v.items, inst.v[i])
      [] node.t = "_Ref" ->
            /\ Key(node.v.name) \in Defined(sch)
            /\ Conforms(sch, sch[Key(node.v.name)], inst)
      [] node.t = "Object" ->
            /\ inst.t = "dict"
            /\ node.v.required # None =>
                   \A i \in 1..Len(node.v.required.v) :
                       Key(node.v.required.v[i]) \in DOMAIN inst.v
            /\ \A p \in DOMAIN inst.v :
                   IF p \in DOMAIN node.v.properties.v
                   THEN Conforms(sch, node.v.properties.v[p], inst.v[p])
                   ELSE node.v.additional_properties = Bool(TRUE)
      [] OTHER -> FALSE

\* the data lacks a property the definition lists as required
LacksRequired(def, inst) ==
    /\ inst.t = "dict"
    /\ def.v.required # None
    /\ \E i \in 1..Len(def.v.required.v) :
           Key(def.v.required.v[i]) \notin DOMAIN inst.v

RECURSIVE ReachesPlaceholder(_, _, _)
\* the data holds a value where the type node refers to a placeholder
ReachesPlaceholder(sch, node, inst) ==
    CASE node.t = "_Ref" ->
            IF sch[Key(node.v.name)] = None THEN TRUE
            ELSE ReachesPlaceholder(sch, sch[Key(node.v.name)], inst)
      [] node.t = "Array" ->
            /\ inst.t = "list"
            /\ \E i \in 1..Len(inst.v) :
                   ReachesPlaceholder(sch, node.v.items, inst.v[i])
      [] node.t = "Object" ->
            /\ inst.t = "dict"
            /\ \E p \in DOMAIN node.v.properties.v \cap DOMAIN inst.v :
                   ReachesPlaceholder(sch, node.v.properties.v[p], inst.v[p])
      [] OTHER -> FALSE

\* validate(name, data) has just ended, name being a defined schema
Validated == cur.op = "validate" /\ cur.name \in Defined(_schemas)

C8_PlaceholderReached ==
    /\ Validated
    /\ LacksRequired(_schemas[cur.name], cur.data)
    /\ ReachesPlaceholder(_schemas, _schemas[cur.name], cur.data)
    /\ raised = "ValidationError"

C8_ConformingReached ==
    /\ Validated
    /\ cur.data = Dict([students |-> List(<<Alice>>)])
    /\ Conforms(_schemas, _schemas[cur.name], cur.data)
    /\ raised = "none"

-----------------------------------------------------------------------------
(* Collecting closures over a registry that is complete (SpecCollect) *)

CollectNames == {"Student", "StudentList", "Course"}

Students == <<"/students">>

\* what Api.schema(n, properties, pattern_properties=pp) registers
Registered(n, properties, pp) ==
    SchemaObject(n, ArgProperties(properties, None), List(<<>>), pp, Bool(FALSE))

\* the definitions of n the registry is drawn from: no reference, a _Ref
\* property, an Array of _Ref, a _Ref pattern property, and two references
CollectShapes(n) ==
    {Registered(n, Dict([name |-> String(None)]), None)}
    \cup {Registered(n, Dict([teacher |-> _Ref(S(m), None)]), None) : m \in CollectNames}
    \cup {Registered(n, Dict([students |-> Array(_Ref(S(m), None), None)]), None) :
            m \in CollectNames}
    \cup {Registered(n, None, Dict("^x-" :> _Ref(S(m), None))) : m \in CollectNames}
    \cup {Registered(n, Dict([teacher |-> _Ref(S(m), None),
                              students |-> Array(_Ref(S("Student"), None), None)]),
                     None) : m \in CollectNames \ {"Student"}}

AddModelArgs == CollectNames \cup {"string", "Ghost"}

AddModelCollect == \E n \in AddModelArgs : add_model(Students, n)

\* the Api once every name is defined and the resource exists
InitCollect ==
    /\ \E h \in HostArgs, p \in PathArgs : ApiPaths(h, p)
    /\ version \in VersionArgs
    /\ \E a \in CollectShapes("Student"), b \in CollectShapes("StudentList"),
          c \in CollectShapes("Course") :
          _schemas = ("Student" :> a) @@ ("StudentList" :> b) @@ ("Course" :> c)
    /\ store = schemas(host, path, _schemas)
    /\ resources = (Students :> _Resource(Students, S("Students")))
    /\ Idle

NextCollect == AddModelCollect \/ add_model_loop \/ deco

\* the loop and the return are steps of one sequential call: they are taken
SpecCollect ==
    InitCollect /\ [][NextCollect]_vars /\ WF_vars(add_model_loop) /\ WF_vars(deco)

-----------------------------------------------------------------------------
(* Claims about one collection (SpecCollect) *)

\* the names the definition of n refers to: the "references" relation
References(sch, n) ==
    IF n \notin DOMAIN sch \/ sch[n] = None THEN {}
    ELSE {m \in DOMAIN sch :
            \/ \E k \in DOMAIN sch[n].v.properties.v : RefersTo(sch, n, k, m)
            \/ /\ Truthy(sch[n].v.pattern_properties)
               /\ \E k \in DOMAIN sch[n].v.pattern_properties.v :
                    LET r == RefIn(sch[n].v.pattern_properties.v[k])
                    IN  r # None /\ r.v.name = S(m)}

RECURSIVE ReachFrom(_, _)
\* the least set holding N and closed under References
ReachFrom(sch, N) ==
    LET M == N \cup UNION {References(sch, n) : n \in N}
    IN  IF M = N THEN N ELSE ReachFrom(sch, M)

Reach(sch, n) == ReachFrom(sch, {n})

\* add_model has returned to its caller
Returned == pc = "call"

\* C1: once add_model(start) returns, for start a registry key, the closure of
\* the resource is the closure it had before united with every name reachable
\* from start through _Ref and Array-of-_Ref properties and pattern
\* properties, whatever order the definitions are iterated in.
C1_ClosureIsReach ==
    (Returned /\ before.type_ \in DOMAIN _schemas) =>
        resources[before.resource].models =
            before.models \cup Reach(_schemas, before.type_)

\* add_model(StudentList) on an empty closure has returned {StudentList, Student}
C1_Witness ==
    /\ Returned
    /\ before.type_ = "StudentList"
    /\ before.models = {}
    /\ resources[before.resource].models = {"StudentList", "Student"}

\* start lies on a cycle of references together with m
OnCycle(sch, start, m) ==
    /\ m \in Reach(sch, start)
    /\ \E k \in References(sch, m) : start \in Reach(sch, k)

\* C2: a collection started on a cycle of references ends, looks up each
\* name's definition at most once, and ends with every type of the cycle in
\* the closure.
C2_CyclesTerminate ==
    /\ [](\A n \in DOMAIN expanded : expanded[n] <= 1)
    /\ []((Returned /\ before.type_ \in DOMAIN _schemas) =>
            \A m \in DOMAIN _schemas :
               OnCycle(_schemas, before.type_, m) =>
                  m \in resources[before.resource].models)
    /\ (pc = "loop") ~> Returned

\* Student and Course refer to each other; add_model(Student) has returned
\* with both, each looked up once
C2_Witness ==
    /\ Returned
    /\ before.type_ = "Student"
    /\ before.models = {}
    /\ "Course" \in References(_schemas, "Student")
    /\ "Student" \in References(_schemas, "Course")
    /\ resources[before.resource].models = {"Student", "Course"}
    /\ expanded = ("Student" :> 1) @@ ("Course" :> 1)

\* a type that refers to itself has been collected
C2_SelfReferenceReached ==
    /\ Returned
    /\ before.type_ = "Course"
    /\ before.models = {}
    /\ References(_schemas, "Course") = {"Course"}
    /\ resources[before.resource].models = {"Course"}

-----------------------------------------------------------------------------
(* Setting an Api up: the calls in any order (Spec) *)

\* the methods of the request handler: each is decorated once
Methods ==
    {[name |-> "get", doc |-> <<"", "List the students.", "", "Sorted by name.">>]}

TypeNames == {"Student", "StudentList", "Course"}

StudentsById == <<"/students/", "<", "id", ":", "\\d+", ">">>

\* properties passed to Api.schema(n, ...): a list of students has a course,
\* a course has students, and any type may be (re)defined with a name only;
\* refs name registry keys, as Api.ref returns them
PropertiesArgs(n, keys) ==
    {Dict([name |-> String(None)])}
    \cup {Dict([course |-> _Ref(S(m), None)]) :
            m \in IF n = "StudentList" THEN keys \cap {"Course"} ELSE {}}
    \cup {Dict([students |-> Array(_Ref(S(m), None), None)]) :
            m \in IF n = "Course" THEN keys \cap {"Student"} ELSE {}}

OperationArg(type_, items, parameters) ==
    [type_ |-> type_, items |-> items, parameters |-> parameters]

\* arguments of _EndPoint.operation: a type name, an array of a reference,
\* and parameters of which one is a Param
OperationArgs(keys) ==
    {OperationArg(n, None, Tuple(<<>>)) : n \in {"StudentList"}}
    \cup {OperationArg("array", _Ref(S(m), None), Tuple(<<>>)) :
            m \in keys \cap {"StudentList"}}
    \cup {OperationArg("void", None, Tuple(<<Param("string"), Param(n)>>)) :
            n \in {"Course"}}

RefAny == \E n \in TypeNames : ref(n)

Define ==
    \E n \in TypeNames : \E props \in PropertiesArgs(n, DOMAIN _schemas) :
        \E order \in Orders(DOMAIN props.v) :
            schema(n, props, Bool(FALSE), List(<<>>), None, order)

NewResource == resource(Students, S("Students"))

NewEndPoint == endpoint(Students, StudentsById)

NewOperation ==
    \E a \in OperationArgs(DOMAIN _schemas), meth \in Methods :
        /\ Students \in DOMAIN resources
        /\ StudentsById \in DOMAIN resources[Students].apis
        /\ \A i \in DOMAIN resources[Students].apis[StudentsById].v.operations.v :
              resources[Students].apis[StudentsById].v.operations.v[i].v.method
                  # S(upper(meth.name))
        /\ operation(Students, StudentsById, a.type_, None, a.items, a.parameters,
                     Tuple(<<>>), meth)

AddModel == \E n \in TypeNames \cup {"string"} : add_model(Students, n)

Init == (\E h \in HostArgs, p \in PathArgs, v \in VersionArgs : ApiInit(h, p, v)) /\ Idle

Next ==
    \/ RefAny
    \/ Define
    \/ NewResource
    \/ NewEndPoint
    \/ NewOperation
    \/ AddModel
    \/ operation_param
    \/ add_model_loop
    \/ deco

Spec == Init /\ [][Next]_vars

-----------------------------------------------------------------------------
(* Claims about the closures while the Api is set up (Spec) *)

\* the closure of the resource at rpath holds every name its members refer to
Closed(rpath) ==
    \A n \in resources[rpath].models :
        References(_schemas, n) \subseteq resources[rpath].models

\* C3: between calls, whatever the order of schema, ref and operation calls,
\* the closure of every resource is closed under the references of the
\* registry as it is now.
C3_ClosureClosed ==
    pc = "idle" => \A rpath \in DOMAIN resources : Closed(rpath)

\* an operation was registered on StudentList while Course was a placeholder,
\* Course was defined afterwards, and the closure lacks the Student it refers to
C3_PlaceholderDefinedLater ==
    /\ pc = "idle"
    /\ Students \in DOMAIN resources
    /\ StudentsById \in DOMAIN resources[Students].apis
    /\ Len(resources[Students].apis[StudentsById].v.operations.v) = 1
    /\ resources[Students].models = {"StudentList", "Course"}
    /\ "Course" \in References(_schemas, "StudentList")
    /\ "Student" \in References(_schemas, "Course")

\* a step that enters add_model: a direct call, operation() and its first
\* add_model, or the add_model for the next Param
EntersAddModel ==
    \/ pc = "idle" /\ cur'.op \in {"add_model", "operation"}
                   /\ (pc' # "idle" \/ raised' = "ValueError")
    \/ pc = "call" /\ todo # <<>>

\* C7: add_model(start) is a no-op for a primitive or a name of the closure,
\* fails with ValueError and leaves the closure as it is for a name that is
\* neither a primitive nor a registry key, and the closure changes only in a
\* call whose start is a registry key, no primitive and not in the closure.
C7_AddModelGuards ==
    /\ [][EntersAddModel =>
            LET start == before'.type_
                closure == resources[before'.resource].models
            IN  /\ (start \in _primitives \/ start \in closure) =>
                      /\ resources' = resources
                      /\ raised' = "none"
                      /\ pc' = "call"
                /\ (start \notin _primitives /\ start \notin DOMAIN _schemas) =>
                      /\ resources' = resources
                      /\ raised' = "ValueError"
                      /\ pc' = "idle"]_vars
    /\ [][\A rpath \in DOMAIN resources :
            (rpath \in DOMAIN resources' /\
             resources'[rpath].models # resources[rpath].models) =>
                /\ pc = "loop"
                /\ before.resource = rpath
                /\ before.type_ \in DOMAIN _schemas
                /\ before.type_ \notin _primitives
                /\ before.type_ \notin before.models]_vars

\* add_model has failed for a name that is no registry key, on a resource
\* whose closure is not empty
C7_Witness ==
    /\ pc = "idle"
    /\ cur.op = "add_model"
    /\ raised = "ValueError"
    /\ before.type_ \notin DOMAIN _schemas
    /\ resources[before.resource].models # {}

\* add_model("string") has returned without effect
C7_PrimitiveReached ==
    /\ pc = "call"
    /\ cur.op = "add_model"
    /\ before.type_ = "string"
    /\ resources[before.resource].models = before.models
    /\ before.models # {}

-----------------------------------------------------------------------------
(* to_dict on objects with identity: the heap (SpecWalk) *)

\* a reference to the object at address a of the heap; strings, numbers,
\* booleans and None are immutable and stand for themselves
Ptr(a) == [t |-> "ptr", v |-> a]

RECURSIVE Deref(_, _)
\* the value a reference denotes in heap h
Deref(h, x) ==
    IF x.t = "ptr"
    THEN [t |-> h[x.v].t, v |-> [k \in DOMAIN h[x.v].v |-> Deref(h, h[x.v].v[k])]]
    ELSE x

\* (mutant) dict.copy that returns the mapping itself
copy_Alias(h, a) == [heap |-> h, at |-> Ptr(a)]

\* (mutant) dict.copy that takes the entries out of the mapping it copies
copy_Move(h, a) ==
    [heap |-> Append([h EXCEPT ![a].v = EmptyMap], h[a]), at |-> Ptr(Len(h) + 1)]

\* dict.copy: a new mapping with the same values
copy(h, a) == [heap |-> Append(h, h[a]), at |-> Ptr(Len(h) + 1)]

\* (mutant) _to_dict that converts the definition a _Ref names in place of the
\* _Ref
HeapToDict_Expand(ctx, st, a, key) ==
    LET val == st.heap[a].v[key]
        named == IF val.t = "ptr" /\ st.heap[val.v].t = "_Ref"
                 THEN {b \in DOMAIN st.heap :
                         /\ st.heap[b].t = "Object"
                         /\ st.heap[b].v.id = st.heap[val.v].v.name}
                 ELSE {}
        tgt == IF named = {} THEN val ELSE Ptr(CHOOSE b \in named : TRUE)
        put(r) == [heap |-> [r.heap EXCEPT ![a].v[key] = r.at],
                   nodes |-> Append(st.nodes, r.at)]
    IN  IF tgt.t # "ptr" THEN st
        ELSE IF HasToDict(st.heap[tgt.v])
        THEN put([heap |-> Append(st.heap, NodeToDict(st.heap[tgt.v], ctx)),
                  at |-> Ptr(Len(st.heap) + 1)])
        ELSE IF HasCopy(st.heap[tgt.v])
        THEN put(copy(st.heap, tgt.v))
        ELSE IF IsListOrTuple(st.heap[tgt.v])
        THEN put([heap |-> Append(st.heap, List(st.heap[tgt.v].v)),
                  at |-> Ptr(Len(st.heap) + 1)])
        ELSE st

\* _to_dict(ctx, node, key, nodes), node at address a; st: the heap and the
\* deque nodes
HeapToDict(ctx, st, a, key) ==
    LET val == st.heap[a].v[key]
        put(r) == [heap |-> [r.heap EXCEPT ![a].v[key] = r.at],
                   nodes |-> Append(st.nodes, r.at)]
    IN  IF val.t # "ptr" THEN st
        ELSE IF HasToDict(st.heap[val.v])
        THEN put([heap |-> Append(st.heap, NodeToDict(st.heap[val.v], ctx)),
                  at |-> Ptr(Len(st.heap) + 1)])
        ELSE IF HasCopy(st.heap[val.v])
        THEN put(copy(st.heap, val.v))
        ELSE IF IsListOrTuple(st.heap[val.v])
        THEN put([heap |-> Append(st.heap, List(st.heap[val.v].v)),
                  at |-> Ptr(Len(st.heap) + 1)])
        ELSE st

RECURSIVE WalkKeys(_, _, _, _)
\* _walk_dict and _walk_list: _to_dict for each key, in the order given; the
\* heap and the deque one call leaves (next) are what the following call finds
WalkKeys(ctx, st, a, order) ==
    IF order = <<>> THEN st
    ELSE CHOOSE r \in {WalkKeys(ctx, next, a, Tail(order)) :
                          next \in {HeapToDict(ctx, st, a, Head(order))}} : TRUE

\* the caller constructs a graph of definitions; the last object is the root
construct(in) ==
    /\ pc = "idle"
    /\ heap = <<>>
    /\ heap' = in
    /\ wk' = [root |-> Ptr(Len(in))]
    /\ UNCHANGED <<host, path, version, _schemas, store, held, resources, pc,
                   cur, loopVars, raised, nodes>>

\* to_dict(root, ctx) up to its loop
to_dict_call(ctx) ==
    /\ pc = "idle"
    /\ heap # <<>>
    /\ LET root == wk.root
           r == IF HasToDict(heap[root.v])
                THEN [heap |-> Append(heap, NodeToDict(heap[root.v], ctx)),
                      at |-> Ptr(Len(heap) + 1)]
                ELSE copy(heap, root.v)
       IN  /\ heap' = r.heap
           /\ nodes' = <<r.at>>
           /\ wk' = [root |-> root, ctx |-> ctx, clone |-> r.at, input |-> heap]
    /\ pc' = "walk"
    /\ UNCHANGED <<host, path, version, _schemas, store, held, resources, cur,
                   loopVars, raised>>

\* to_dict: one turn of `while nodes`
to_dict_loop ==
    /\ pc = "walk"
    /\ nodes # <<>>
    /\ LET node == nodes[Len(nodes)]
           st == [heap |-> heap, nodes |-> SubSeq(nodes, 1, Len(nodes) - 1)]
       IN  \E order \in IF heap[node.v].t = "dict"
                        THEN Orders(DOMAIN heap[node.v].v)
                        ELSE IF IsListOrTuple(heap[node.v])
                        THEN {[i \in 1..Len(heap[node.v].v) |-> i]}
                        ELSE {<<>>} :
             /\ heap' = WalkKeys(wk.ctx, st, node.v, order).heap
             /\ nodes' = WalkKeys(wk.ctx, st, node.v, order).nodes
    /\ UNCHANGED <<host, path, version, _schemas, store, held, resources, pc,
                   cur, loopVars, raised, wk>>

\* to_dict: `return clone`
to_dict_return ==
    /\ pc = "walk"
    /\ nodes = <<>>
    /\ pc' = "returned"
    /\ UNCHANGED <<host, path, version, _schemas, store, held, resources, cur,
                   loopVars, raised, walkVars>>

\* the graphs to_dict is given, object by object in the order the caller
\* constructs them; the last object is the root

\* test_walk_primitives: {"a": 1, "b": "2", "c": {}}
Primitives ==
    <<Dict(EmptyMap),
      Dict([a |-> Num(1), b |-> S("2"), c |-> Ptr(1)])>>

\* test_walk_schema: Object(properties={"a": Int()})
WalkSchema ==
    <<Int(None),
      Dict([a |-> Ptr(1)]),
      Object(None, Ptr(2), None, None, None)>>

\* test_walk_array: {"list": [Int()]}
WalkArray ==
    <<Int(None),
      List(<<Ptr(1)>>),
      Dict([list |-> Ptr(2)])>>

\* Api.schemas: the mapping of the definitions of Student and StudentList
SchemasDoc ==
    <<String(None),
      Int(None),
      Dict([name |-> Ptr(1), id |-> Ptr(2)]),
      List(<<S("name")>>),
      Object(S("Student"), Ptr(3), Ptr(4), None, Bool(FALSE)),
      _Ref(S("Student"), None),
      Array(Ptr(6), None),
      Dict([students |-> Ptr(7)]),
      _Ref(S("Student"), None),
      Dict("^x-" :> Ptr(9)),
      Object(S("StudentList"), Ptr(8), None, Ptr(10), Bool(FALSE)),
      Dict([id |-> S("http://example.com/api/v1/json-schemas#"),
            Student |-> Ptr(5), StudentList |-> Ptr(11)])>>

\* _Resource.api_doc: one endpoint with one operation, and the model Student
ApiDoc ==
    <<_Ref(S("Student"), None),
      Param("string"),
      Tuple(<<Ptr(2)>>),
      Message(404, "Not found"),
      Tuple(<<Ptr(4)>>),
      Operation(S("GET"), S("List the students."), S("array"), S("getStudents"),
                Ptr(1), Ptr(3), Ptr(5)),
      List(<<Ptr(6)>>),
      [_EndPoint(StudentsById) EXCEPT !.v.operations = Ptr(7)],
      List(<<Ptr(8)>>),
      String(None),
      Dict([name |-> Ptr(10)]),
      Object(S("Student"), Ptr(11), None, None, Bool(FALSE)),
      Dict([Student |-> Ptr(12)]),
      Dict([resourcePath |-> S("/students"), apis |-> Ptr(9), models |-> Ptr(13)])>>

\* one Int node held under two keys of a properties mapping
SharedNode ==
    <<Int(None),
      Dict([a |-> Ptr(1), b |-> Ptr(1)]),
      Dict([properties |-> Ptr(2)])>>

WalkInputs == {Primitives, WalkSchema, WalkArray, SchemasDoc, ApiDoc, SharedNode}

Construct == \E in \in WalkInputs : construct(in)

ToDict ==
    \E output \in {JSON_SCHEMA, SWAGGER_DOC} :
        to_dict_call(_Context(ApiOf(host, path), output))

NextWalk == Construct \/ ToDict \/ to_dict_loop \/ to_dict_return

SpecWalk == Init /\ [][NextWalk]_vars

-----------------------------------------------------------------------------
(* Claims about the walk (SpecWalk) *)

RECURSIVE Cells(_, _)
\* the addresses of the objects reachable from x
Cells(h, x) ==
    IF x.t # "ptr" THEN {}
    ELSE {x.v} \cup UNION {Cells(h, h[x.v].v[k]) : k \in DOMAIN h[x.v].v}

\* C10: while to_dict runs and once it has returned, every object of the
\* graph it was given is the object it was, with the field values it had; the
\* returned tree is made of new mappings and lists only, and it holds the
\* conversion of the graph.
C10_InputUnchanged ==
    /\ pc \in {"walk", "returned"} =>
          \A a \in DOMAIN wk.input : heap[a] = wk.input[a]
    /\ pc = "returned" =>
          /\ \A a \in Cells(heap, wk.clone) :
                /\ a \notin DOMAIN wk.input
                /\ heap[a].t \in {"dict", "list"}
          /\ Deref(heap, wk.clone) = to_dict(Deref(wk.input, wk.root), wk.ctx)

\* to_dict has returned for the graph of an Object with properties: the
\* returned tree differs from the graph, which still holds its Int node
C10_Witness ==
    /\ pc = "returned"
    /\ heap[wk.root.v].t = "Object"
    /\ heap[heap[heap[wk.root.v].v.properties.v].v["a"].v].t = "Int"
    /\ Deref(heap, wk.clone).v["properties"].v["a"].t = "dict"
    /\ Deref(heap, wk.clone) # Deref(heap, wk.root)

\* to_dict has returned for the mapping that holds one node twice
C10_SharedReached ==
    /\ pc = "returned"
    /\ heap[wk.root.v].t = "dict"
    /\ "properties" \in DOMAIN heap[wk.root.v].v
    /\ LET props == heap[heap[wk.root.v].v["properties"].v].v
       IN  DOMAIN props = {"a", "b"} /\ props["a"] = props["b"]
    /\ LET props == heap[heap[wk.clone.v].v["properties"].v].v
       IN  props["a"] # props["b"]

-----------------------------------------------------------------------------
(* Api.schemas called again and again on one registry (SpecRender) *)

\* Api.schemas up to the loop of to_dict; the registry is the object at
\* wk.root: the local mapping `schemas` is built from it, then to_dict copies
\* that mapping
schemas_call ==
    /\ pc = "idle"
    /\ heap # <<>>
    /\ LET reg == heap[wk.root.v].v
           head == [id |-> Str(schema_path(host, path) \o <<"#">>)]
                   @@ ("$schema" :> S("http://json-schema.org/draft-04/schema#"))
           doc == [k \in DOMAIN head \cup Defined(reg) |->
                      IF k \in Defined(reg) THEN reg[k] ELSE head[k]]
           local == Append(heap, Dict(doc))
           r == copy(local, Len(local))
       IN  /\ heap' = r.heap
           /\ nodes' = <<r.at>>
           /\ wk' = [root |-> wk.root,
                     ctx |-> _Context(ApiOf(host, path), JSON_SCHEMA),
                     clone |-> r.at, input |-> heap]
    /\ pc' = "walk"
    /\ UNCHANGED <<host, path, version, _schemas, store, held, resources, cur,
                   loopVars, raised>>

\* Api.schema_handler: the document Api.schemas returned is sent; the
\* client requests the document once, then once again
schema_handler ==
    /\ pc = "returned"
    /\ cur.op = "schema_handler" => ~cur.again
    /\ cur' = [op |-> "schema_handler", again |-> cur.op = "schema_handler",
               doc |-> Deref(heap, wk.clone)]
    /\ wk' = [root |-> wk.root]
    /\ pc' = "idle"
    /\ UNCHANGED <<host, path, version, _schemas, store, held, resources,
                   loopVars, raised, heap, nodes>>

\* Api._schemas after schema("Student", ...), schema("StudentList", ...) and
\* ref("Course"): the definitions, and a placeholder
Registry ==
    <<String(None),
      Dict([name |-> Ptr(1)]),
      List(<<S("name")>>),
      Object(S("Student"), Ptr(2), Ptr(3), None, Bool(FALSE)),
      _Ref(S("Student"), None),
      Array(Ptr(5), None),
      Dict([students |-> Ptr(6)]),
      Object(S("StudentList"), Ptr(7), None, None, Bool(FALSE)),
      Dict([Student |-> Ptr(4), StudentList |-> Ptr(8), Course |-> None])>>

\* Api._schemas after schema("Student") alone
RegistryOfOne ==
    <<Dict(EmptyMap),
      Object(S("Student"), Ptr(1), None, None, Bool(TRUE)),
      Dict([Student |-> Ptr(2)])>>

Registries == {Registry, RegistryOfOne}

ConstructRegistry == \E in \in Registries : construct(in)

NextRender ==
    ConstructRegistry \/ schemas_call \/ to_dict_loop \/ to_dict_return
    \/ schema_handler

SpecRender == Init /\ [][NextRender]_vars

\* C11: when render_all is called again with no define and no reference call
\* since the document it returned last, the document it returns is that
\* document, value for value.
C11_RenderTwice ==
    (pc = "returned" /\ cur.op = "schema_handler") =>
        Deref(heap, wk.clone) = cur.doc

\* render_all has returned a second time, for a registry with two
\* definitions and a placeholder
C11_Witness ==
    /\ pc = "returned"
    /\ cur.op = "schema_handler"
    /\ DOMAIN cur.doc.v = {"id", "$schema", "Student", "StudentList"}
    /\ Deref(heap, wk.clone).v["Student"].v["properties"].v["name"]
           = Dict([type |-> S("string")])

-----------------------------------------------------------------------------
(* The documents served while the Api is set up (SpecDocs) *)

\* str(x), for the versions an Api is given
str(x) == IF x.t = "int" THEN S(ToString(x.v)) ELSE x

\* (mutant) _Resource.api_doc without its `if schema is None: continue`
resource_api_doc_NoSkip(h, p, ver, sch, r, order) ==
    LET models == [n \in r.models |-> sch[n]]
    IN  to_dict(Dict([apiVersion |-> str(ver),
                      swaggerVersion |-> S("1.2"),
                      basePath |-> Str(base_path(h, p)),
                      resourcePath |-> Str(r.path),
                      apis |-> List([i \in 1..Len(order) |-> r.apis[order[i]]]),
                      models |-> Dict(models)]),
                _Context(r, SWAGGER_DOC))

\* _Resource.api_doc for the resource r; order: the order apis.values() has
resource_api_doc(h, p, ver, sch, r, order) ==
    LET models == [n \in {m \in r.models : sch[m] # None} |-> sch[n]]
    IN  to_dict(Dict([apiVersion |-> str(ver),
                      swaggerVersion |-> S("1.2"),
                      basePath |-> Str(base_path(h, p)),
                      resourcePath |-> Str(r.path),
                      apis |-> List([i \in 1..Len(order) |-> r.apis[order[i]]]),
                      models |-> Dict(models)]),
                _Context(r, SWAGGER_DOC))

\* Api.schema_handler: the document of Api.schemas is returned
RenderAll ==
    /\ pc = "idle"
    /\ cur' = [op |-> "schemas", doc |-> schemas(host, path, _schemas)]
    /\ raised' = "none"
    /\ UNCHANGED <<host, path, version, _schemas, store, held, resources, pc,
                   loopVars, walkVars>>

\* Api.apis_handler for a resource that exists: its api_doc is returned
ResourceApiDoc(rpath) ==
    /\ pc = "idle"
    /\ rpath \in DOMAIN resources
    /\ \E order \in Orders(DOMAIN resources[rpath].apis) :
          cur' = [op |-> "api_doc", resource |-> rpath,
                  doc |-> resource_api_doc(host, path, version, _schemas,
                                           resources[rpath], order)]
    /\ raised' = "none"
    /\ UNCHANGED <<host, path, version, _schemas, store, held, resources, pc,
                   loopVars, walkVars>>

\* the requests served: the schema document, the api-doc of the resource,
\* and the validation of a request body against Student
Serve ==
    \/ RenderAll
    \/ ResourceApiDoc(Students)
    \/ \E d \in {Alice, Dict(EmptyMap)} : validate("Student", d)

NextDocs == Next \/ Serve

SpecDocs == Init /\ [][NextDocs]_vars

\* C12: whatever the step (a define, a reference, the registration of an
\* operation, add_model and each turn of its loop, a rendering, a
\* validation), every resource is still there after it and its closure
\* holds every name it held before.
C12_ClosureGrows ==
    [][\A r \in DOMAIN resources :
          /\ r \in DOMAIN resources'
          /\ resources[r].models \subseteq resources'[r].models]_vars

\* a closure of two names has been served in an api-doc
C12_Witness ==
    /\ cur.op = "api_doc"
    /\ Cardinality(resources[Students].models) >= 2
    /\ DOMAIN cur.doc.v["models"].v # {}

RECURSIVE Refs(_)
\* the values found under "$ref" anywhere in a rendered tree
Refs(x) ==
    IF x.t = "dict"
    THEN (IF "$ref" \in DOMAIN x.v THEN {x.v["$ref"]} ELSE {})
         \cup UNION {Refs(x.v[k]) : k \in DOMAIN x.v}
    ELSE IF x.t = "list" THEN UNION {Refs(x.v[i]) : i \in 1..Len(x.v)}
    ELSE {}

\* C13: in the api-doc of a resource, the keys of `models` are the names of
\* its closure that the registry binds to a definition (placeholders are
\* left out), each is mapped to the Swagger-mode rendering of that
\* definition, and every reference inside `models` is a bare type name.
C13_ApiDocModels ==
    cur.op = "api_doc" =>
        LET r == resources[cur.resource]
            models == cur.doc.v["models"]
        IN  /\ DOMAIN models.v = r.models \cap Defined(_schemas)
            /\ \A n \in DOMAIN models.v :
                  models.v[n] = _to_dict(_Context(r, SWAGGER_DOC), _schemas[n])
            /\ \A x \in Refs(models) :
                  x.t = "str" /\ Len(x.v) = 1 /\ x.v[1] \in DOMAIN _schemas

\* an api-doc was served for a closure that holds a placeholder and a
\* definition that refers to it: the placeholder is no model, the reference
\* to it is its bare name
C13_Witness ==
    /\ cur.op = "api_doc"
    /\ "Course" \in resources[cur.resource].models
    /\ _schemas["Course"] = None
    /\ DOMAIN cur.doc.v["models"].v = {"StudentList"}
    /\ cur.doc.v["models"].v["StudentList"].v["properties"].v["course"]
           = Dict("$ref" :> S("Course"))

-----------------------------------------------------------------------------
(* Resources, endpoints and the root api-doc (SpecResources) *)

\* Api.swagger_version
swagger_version == S("1.2")

\* _Resource.summary
summary(r) == Dict([path |-> Str(r.path), description |-> r.description])

\* the one-token strings the resource paths are, in the order str comparison
\* puts them
Collation == <<"/courses", "/students", "/teachers">>

\* a < b for one-token strings
str_lt(a, b) == IndexOf(Collation, a.v[1]) < IndexOf(Collation, b.v[1])

\* operator.itemgetter('path')
itemgetter_path(x) == x.v["path"]

RECURSIVE insort(_, _)
\* s with x put after the last element whose key is not greater than its key
insort(s, x) ==
    IF s = <<>> THEN <<x>>
    ELSE IF str_lt(itemgetter_path(x), itemgetter_path(s[Len(s)]))
    THEN Append(insort(SubSeq(s, 1, Len(s) - 1), x), s[Len(s)])
    ELSE Append(s, x)

\* (mutant) sorted that returns the list as it is given
sorted_AsGiven(s) == s

RECURSIVE sorted(_)
\* sorted(s, key=operator.itemgetter('path')): a stable sort
sorted(s) ==
    IF s = <<>> THEN <<>>
    ELSE insort(sorted(SubSeq(s, 1, Len(s) - 1)), s[Len(s)])

\* Api.api_doc; order: the order resources.values() has
api_doc(ver, res, order) ==
    Dict([apiVersion |-> ver,
          swaggerVersion |-> swagger_version,
          apis |-> List(sorted([i \in 1..Len(order) |-> summary(res[order[i]])]))])

\* Api.api_doc_handler: the root api-doc is returned
api_doc_handler ==
    /\ pc = "idle"
    /\ \E order \in Orders(DOMAIN resources) :
          cur' = [op |-> "root_api_doc", order |-> order,
                  doc |-> api_doc(version, resources, order)]
    /\ raised' = "none"
    /\ UNCHANGED <<host, path, version, _schemas, store, held, resources, pc,
                   loopVars, walkVars>>

Courses == <<"/courses">>
Teachers == <<"/teachers">>

ResourcePaths == {Courses, Students, Teachers}
Descriptions == {S("Operations about students"), None}

\* the versions an Api is given: a string, a number
Versions == {S("1"), Num(2)}

NewResources ==
    \E rpath \in ResourcePaths, desc \in Descriptions : resource(rpath, desc)

InitResources ==
    (\E h \in HostArgs, p \in PathArgs, v \in Versions : ApiInit(h, p, v)) /\ Idle

NextResources ==
    \/ NewResources
    \/ api_doc_handler

SpecResources == InitResources /\ [][NextResources]_vars

\* C14: the root api-doc has apiVersion equal to the version the Api was
\* given, swaggerVersion "1.2", and under `apis` one {path, description}
\* entry for each registered resource path and no other, in ascending order
\* of path whatever the order the resources are met in (none: an empty list).
C14_RootApiDoc ==
    cur.op = "root_api_doc" =>
        LET apis == cur.doc.v["apis"].v
        IN  /\ cur.doc.v["apiVersion"] = version
            /\ cur.doc.v["swaggerVersion"] = S("1.2")
            /\ DOMAIN cur.doc.v = {"apiVersion", "swaggerVersion", "apis"}
            /\ Len(apis) = Cardinality(DOMAIN resources)
            /\ \A rpath \in DOMAIN resources :
                  \E i \in 1..Len(apis) :
                      apis[i] = Dict([path |-> Str(rpath),
                                      description |-> resources[rpath].description])
            /\ \A i \in 1..Len(apis), j \in 1..Len(apis) :
                  i < j => str_lt(apis[i].v["path"], apis[j].v["path"])

\* the root api-doc was served for three resources met in descending order
C14_Witness ==
    /\ cur.op = "root_api_doc"
    /\ cur.order = <<Teachers, Students, Courses>>
    /\ Len(cur.doc.v["apis"].v) = 3
    /\ cur.doc.v["apis"].v[1].v["path"] = Str(Courses)

\* the root api-doc was served before any resource was registered
C14_NoResourceReached ==
    /\ cur.op = "root_api_doc"
    /\ cur.doc.v["apis"] = List(<<>>)

-----------------------------------------------------------------------------
(* Type nodes constructed from keyword arguments and converted (SpecNodes) *)

\* the value of a keyword argument: the one given, or the default
Arg(given, f, default) == IF f \in DOMAIN given THEN given[f] ELSE default

\* cls(**given), for the classes _Type, String and Object
NewNode(cls, given) ==
    IF cls = "Object"
    THEN Object(Arg(given, "id", None), Arg(given, "properties", None),
                Arg(given, "required", Tuple(<<>>)),
                Arg(given, "pattern_properties", None),
                Arg(given, "additional_properties", None))
    ELSE Obj(cls,
             TypeInit(Arg(given, "name", None),
                      IF cls = "String" THEN S("string")
                      ELSE Arg(given, "type_", None),
                      Arg(given, "description", None),
                      Arg(given, "format", None),
                      Arg(given, "required", None),
                      Arg(given, "default", None),
                      Arg(given, "param_type", None),
                      Arg(given, "enum", None)))

\* cls(**given): the node is constructed, or Object.__init__ raises
node_init(cls, given) ==
    /\ pc = "idle"
    /\ IF cls = "Object"
          /\ ObjectRaises(Arg(given, "properties", None),
                          Arg(given, "required", Tuple(<<>>)))
       THEN /\ raised' = "ValueError"
            /\ cur' = [op |-> "__init__", cls |-> cls, given |-> given]
       ELSE /\ raised' = "none"
            /\ cur' = [op |-> "__init__", cls |-> cls, given |-> given,
                       node |-> NewNode(cls, given)]
    /\ UNCHANGED <<host, path, version, _schemas, store, held, resources, pc,
                   loopVars, walkVars>>

\* node.to_dict(ctx), for the node just constructed
node_to_dict ==
    /\ pc = "idle"
    /\ cur.op = "__init__"
    /\ raised = "none"
    /\ cur' = [op |-> "to_dict", cls |-> cur.cls, given |-> cur.given,
               node |-> cur.node, doc |-> TypeToDict(cur.node)]
    /\ UNCHANGED <<host, path, version, _schemas, store, held, resources, pc,
                   loopVars, raised, walkVars>>

\* a keyword argument that is left out or given one of vals
Opt(f, vals) == {EmptyMap} \cup {f :> v : v \in vals}

\* keyword arguments of _Type and String: each is left out, or given a value
\* that may be false, 0 or empty
TypeKw ==
    {a @@ b @@ c @@ d :
        a \in Opt("required", {Bool(FALSE), Bool(TRUE)}),
        b \in Opt("default", {Num(0)}),
        c \in Opt("enum", {List(<<>>)}),
        d \in Opt("description", {Str(<<>>)})}

\* keyword arguments of Object
ObjectKw ==
    {a @@ b @@ c :
        a \in Opt("required", {List(<<>>), List(<<S("name")>>)}),
        b \in Opt("properties", {Dict(EmptyMap), Dict([name |-> String(None)])}),
        c \in Opt("additional_properties", {Bool(FALSE)})}

NewNodes ==
    \/ \E cls \in {"_Type", "String"}, given \in TypeKw : node_init(cls, given)
    \/ \E given \in ObjectKw : node_init("Object", given)

NextNodes == NewNodes \/ node_to_dict

SpecNodes == Init /\ [][NextNodes]_vars

\* the attributes the constructor of cls sets whatever the arguments
SetByClass(cls, given) ==
    CASE cls = "String" -> {"type"}
      [] cls = "Object" ->
             {"type", "properties"}
             \cup (IF "properties" \in DOMAIN given THEN {}
                   ELSE {"additional_properties"})
      [] OTHER -> {}

\* C15: in the plain mapping of a type node, a field appears if and only if
\* its value is set: every field given explicitly appears, also when it is
\* given false, 0 or an empty collection (an empty required list,
\* required=False), and a field that was not given and that the constructor
\* does not set is omitted.
C15_SetFieldsAppear ==
    cur.op = "to_dict" =>
        \A f \in DOMAIN cur.node.v :
            camelCase(f) \in DOMAIN cur.doc.v
                <=> f \in DOMAIN cur.given \cup SetByClass(cur.cls, cur.given)

\* an Object given an empty required list was converted
C15_EmptyRequiredReached ==
    /\ cur.op = "to_dict"
    /\ cur.cls = "Object"
    /\ "required" \in DOMAIN cur.given
    /\ cur.given["required"] = List(<<>>)
    /\ "required" \notin DOMAIN cur.doc.v

-----------------------------------------------------------------------------
(* The head of the schema document, for any type names (SpecHeader) *)

\* names given to Api.schema and Api.ref: any string is accepted
HeaderNames == {"Student", "id", "$schema"}

RefHeader == \E n \in HeaderNames : ref(n)

DefineHeader ==
    \E n \in HeaderNames :
        \/ schema(n, None, Bool(FALSE), List(<<>>), None, <<>>)
        \/ schema(n, Dict([name |-> String(Bool(TRUE))]), Bool(FALSE),
                  List(<<>>), None, <<"name">>)

NextHeader == RefHeader \/ DefineHeader \/ RenderAll

SpecHeader == Init /\ [][NextHeader]_vars

\* C16: whatever the names of the defined types (a type may be named "id"
\* or "$schema"), the document render_all returns has `id` equal to host +
\* path + "/json-schemas#" and `$schema` equal to the Draft-04 meta-schema
\* URI.
C16_HeaderFixed ==
    cur.op = "schemas" =>
        /\ cur.doc.v["id"] = Str(host \o path \o <<"/json-schemas", "#">>)
        /\ cur.doc.v["$schema"] = S("http://json-schema.org/draft-04/schema#")

\* render_all was called with a type named "id" defined: the `id` of the
\* document is the rendering of that type
C16_TypeNamedIdReached ==
    /\ cur.op = "schemas"
    /\ "id" \in Defined(_schemas)
    /\ cur.doc.v["id"].t = "dict"
    /\ cur.doc.v["id"].v["type"] = S("object")

-----------------------------------------------------------------------------
(* Api.__init__ for any host and path (SpecApi) *)

\* Api(host, path, version) for the arguments the caller holds in cur: a
\* string is a sequence of "/" tokens and of tokens without "/"
Api_init ==
    /\ pc = "new"
    /\ IF cur.path = <<>>
       THEN \* path[0] of an empty string
            /\ raised' = "IndexError"
            /\ pc' = "failed"
            /\ UNCHANGED <<host, path, version>>
       ELSE IF cur.path[1] # "/"
       THEN /\ raised' = "ValueError"
            /\ pc' = "failed"
            /\ UNCHANGED <<host, path, version>>
       ELSE /\ raised' = "none"
            /\ pc' = "idle"
            /\ host' = rstrip(cur.host, "/")
            /\ path' = rstrip(cur.path, "/")
            /\ version' = cur.version
    /\ UNCHANGED <<_schemas, store, held, resources, cur, loopVars, walkVars>>

\* api.base_path, read by the caller
get_base_path ==
    /\ pc = "idle"
    /\ cur.op = "Api"
    /\ cur' = [op |-> "base_path", host |-> cur.host, path |-> cur.path,
               version |-> cur.version, value |-> base_path(host, path)]
    /\ UNCHANGED <<host, path, version, _schemas, store, held, resources, pc,
                   loopVars, raised, walkVars>>

\* host arguments: with no, one and two trailing "/"
ApiHosts ==
    {<<"http://example.com">>, <<"http://example.com", "/">>,
     <<"http://example.com", "/", "/">>}

\* path arguments: absolute, relative and empty
ApiPathArgs ==
    {<<"/", "api", "/", "v1", "/">>, <<"/", "api", "/", "v1">>, <<"/", "api">>,
     <<"/", "api", "/", "/">>, <<"/">>, <<"/", "/">>,
     <<"api", "/", "v1", "/">>, <<"api">>, <<"v1", "/">>, <<>>}

\* before construction: the caller holds the arguments, there is no Api yet
InitApi ==
    /\ \E h \in ApiHosts, p \in ApiPathArgs, v \in Versions :
          cur = [op |-> "Api", host |-> h, path |-> p, version |-> v]
    /\ pc = "new"
    /\ host = <<>>
    /\ path = <<>>
    /\ version = None
    /\ resources = EmptyMap
    /\ _schemas = EmptyMap
    /\ store = Dict(EmptyMap)
    /\ held = String(Bool(TRUE))
    /\ todo = <<>>
    /\ skip = {}
    /\ to_check = <<>>
    /\ expanded = EmptyMap
    /\ before = NoCall
    /\ raised = "none"
    /\ heap = EmptyMap
    /\ nodes = <<>>
    /\ wk = None

NextApi == Api_init \/ get_base_path

SpecApi == InitApi /\ [][NextApi]_vars

\* s is arg without its trailing "/" characters
Stripped(s, arg) ==
    /\ Len(s) <= Len(arg)
    /\ SubSeq(arg, 1, Len(s)) = s
    /\ \A i \in (Len(s) + 1)..Len(arg) : arg[i] = "/"
    /\ s # <<>> => s[Len(s)] # "/"

\* C17: the construction of an Api with a path that does not begin with "/"
\* (the empty path is one) fails with a definition error; with a path that
\* begins with "/" it succeeds, host and path are the arguments without
\* their trailing "/" characters, and base_path is that host followed by that
\* path.
C17_ApiConstruction ==
    /\ pc # "new" =>
          IF cur.path = <<>> \/ cur.path[1] # "/"
          THEN pc = "failed" /\ raised = "ValueError"
          ELSE /\ pc = "idle"
               /\ raised = "none"
               /\ Stripped(host, cur.host)
               /\ Stripped(path, cur.path)
    /\ cur.op = "base_path" => cur.value = host \o path

\* the construction was attempted with the empty path
C17_EmptyPathReached ==
    /\ pc = "failed"
    /\ cur.path = <<>>
    /\ raised = "IndexError"

-----------------------------------------------------------------------------
(* Requests served by concurrent threads once the Api is set up             *)
(* (SpecRequests).  heap.shared holds the objects made during setup, heap[t] *)
(* the objects thread t has made for the request it serves; wk[t] and       *)
(* nodes[t] are the locals of thread t.                                     *)

Threads == {"a", "b"}

\* the objects of the Api after setup: a String property, the definition of
\* Student, the registry (Course is a placeholder), an endpoint with one
\* operation, the closure of the resource, the resource, and the RefResolver
\* created for base_uri
SetUp(base_uri) ==
    <<String(None),
      Dict([name |-> Ptr(1)]),
      Object(S("Student"), Ptr(2), None, None, Bool(FALSE)),
      Dict([Student |-> Ptr(3), Course |-> None]),
      Tuple(<<>>),
      Operation(S("GET"), S("List the students."), S("Student"),
                S("getStudent"), None, Ptr(5), Ptr(5)),
      List(<<Ptr(6)>>),
      [_EndPoint(StudentsById) EXCEPT !.v.operations = Ptr(7)],
      Dict("/students/<id:\\d+>" :> Ptr(8)),
      [t |-> "set", v |-> <<S("Student"), S("Course")>>],
      Obj("_Resource", [path |-> Str(Students), description |-> S("Students"),
                        apis |-> Ptr(9), models |-> Ptr(10)]),
      Obj("RefResolver", [resolution_scope |-> Str(base_uri)])>>

\* api._schemas, api.resources["/students"], api._resolver
TheRegistry == Ptr(4)
TheResource == Ptr(11)
TheResolver == Ptr(12)

\* the registry held in h, by value
RegistryOf(h) ==
    [n \in DOMAIN h[TheRegistry.v].v |-> Deref(h, h[TheRegistry.v].v[n])]

\* the resource held in h, by value
ResourceOf(h) ==
    LET r == h[TheResource.v].v
    IN  [path |-> r.path.v,
         description |-> r.description,
         apis |-> [k \in DOMAIN h[r.apis.v].v |-> Deref(h, h[r.apis.v].v[k])],
         models |-> {h[r.models.v].v[i].v[1] : i \in 1..Len(h[r.models.v].v)}]

\* the heap as thread t sees it: the shared objects, then its own
View(t) == heap.shared \o heap[t]

\* the heap once thread t has turned its view into h
Store(t, h) ==
    [heap EXCEPT !.shared = SubSeq(h, 1, Len(heap.shared)),
                 ![t] = SubSeq(h, Len(heap.shared) + 1, Len(h))]

\* Api.schemas in thread t, up to the loop of to_dict
serve_schemas(t) ==
    /\ wk[t].pc = "idle"
    /\ LET shared == heap.shared
           reg == shared[TheRegistry.v].v
           head == [id |-> Str(schema_path(host, path) \o <<"#">>)]
                   @@ ("$schema" :> S("http://json-schema.org/draft-04/schema#"))
           doc == [k \in DOMAIN head \cup Defined(reg) |->
                      IF k \in Defined(reg) THEN reg[k] ELSE head[k]]
           local == Append(shared, Dict(doc))
           r == copy(local, Len(local))
       IN  /\ heap' = Store(t, r.heap)
           /\ nodes' = [nodes EXCEPT ![t] = <<r.at>>]
           /\ wk' = [wk EXCEPT ![t] =
                        [pc |-> "walk", kind |-> "schemas", clone |-> r.at,
                         ctx |-> _Context(ApiOf(host, path), JSON_SCHEMA)]]
    /\ UNCHANGED <<host, path, version, _schemas, store, held, resources, pc,
                   cur, loopVars, raised>>

\* _Resource.api_doc in thread t, up to the loop of to_dict
serve_api_doc(t) ==
    /\ wk[t].pc = "idle"
    /\ LET shared == heap.shared
           n == Len(shared)
           reg == shared[TheRegistry.v].v
           res == shared[TheResource.v].v
           names == {shared[res.models.v].v[i].v[1] :
                        i \in 1..Len(shared[res.models.v].v)}
           models == [m \in {x \in names : reg[x] # None} |-> reg[m]]
           apis == shared[res.apis.v].v
       IN  \E order \in Orders(DOMAIN apis) :
             LET local == shared \o
                     <<Dict(models),
                       List([i \in 1..Len(order) |-> apis[order[i]]]),
                       Dict([apiVersion |-> str(version),
                             swaggerVersion |-> swagger_version,
                             basePath |-> Str(base_path(host, path)),
                             resourcePath |-> res.path,
                             apis |-> Ptr(n + 2),
                             models |-> Ptr(n + 1)])>>
                 r == copy(local, Len(local))
             IN  /\ heap' = Store(t, r.heap)
                 /\ nodes' = [nodes EXCEPT ![t] = <<r.at>>]
                 /\ wk' = [wk EXCEPT ![t] =
                              [pc |-> "walk", kind |-> "api_doc",
                               clone |-> r.at, order |-> order,
                               ctx |-> _Context(TheResource, SWAGGER_DOC)]]
    /\ UNCHANGED <<host, path, version, _schemas, store, held, resources, pc,
                   cur, loopVars, raised>>

\* to_dict in thread t: one turn of `while nodes`
serve_loop(t) ==
    /\ wk[t].pc = "walk"
    /\ nodes[t] # <<>>
    /\ LET h == View(t)
           node == nodes[t][Len(nodes[t])]
           st == [heap |-> h, nodes |-> SubSeq(nodes[t], 1, Len(nodes[t]) - 1)]
       IN  \E order \in IF h[node.v].t = "dict" THEN Orders(DOMAIN h[node.v].v)
                        ELSE IF IsListOrTuple(h[node.v])
                        THEN {[i \in 1..Len(h[node.v].v) |-> i]}
                        ELSE {<<>>} :
             /\ heap' = Store(t, WalkKeys(wk[t].ctx, st, node.v, order).heap)
             /\ nodes' = [nodes EXCEPT
                             ![t] = WalkKeys(wk[t].ctx, st, node.v, order).nodes]
    /\ UNCHANGED <<host, path, version, _schemas, store, held, resources, pc,
                   cur, loopVars, raised, wk>>

\* to_dict in thread t: `return clone`; the handler has its document
serve_return(t) ==
    /\ wk[t].pc = "walk"
    /\ nodes[t] = <<>>
    /\ wk' = [wk EXCEPT ![t] =
                 [pc |-> "returned", kind |-> wk[t].kind,
                  order |-> IF wk[t].kind = "api_doc" THEN wk[t].order ELSE <<>>,
                  result |-> Deref(View(t), wk[t].clone)]]
    /\ UNCHANGED <<host, path, version, _schemas, store, held, resources, pc,
                   cur, loopVars, raised, heap, nodes>>

\* urljoin(base, name) for a relative name: it replaces the last segment
urljoin(base, name) ==
    (IF base[Len(base)] = "/json-schemas"
     THEN SubSeq(base, 1, Len(base) - 1) \o <<"/">>
     ELSE SubSeq(base, 1, Len(base) - 1)) \o <<name>>

\* the resolver with its resolution_scope set to scope
in_scope(h, scope) ==
    [h EXCEPT !.shared[TheResolver.v].v.resolution_scope = Str(scope)]

\* Api.validate in thread t: `self._resolver.resolving('#/%s' % schema)` up
\* to its yield. The uri is the resolution scope of the shared resolver; a
\* uri that is not in the store is fetched, which fails
validate_resolving(t, name, data) ==
    /\ wk[t].pc = "idle"
    /\ LET scope == heap.shared[TheResolver.v].v.resolution_scope.v
       IN  IF scope # schema_path(host, path) \/ name \notin DOMAIN store.v
           THEN /\ wk' = [wk EXCEPT ![t] =
                             [pc |-> "returned", kind |-> "validate",
                              name |-> name, data |-> data, order |-> <<>>,
                              result |-> "RefResolutionError"]]
                /\ UNCHANGED heap
           ELSE /\ wk' = [wk EXCEPT ![t] =
                             [pc |-> "resolving", kind |-> "validate",
                              name |-> name, data |-> data, old |-> scope]]
                /\ heap' = in_scope(heap, scope)
    /\ UNCHANGED <<host, path, version, _schemas, store, held, resources, pc,
                   cur, loopVars, raised, nodes>>

\* Draft4Validator.iter_errors in thread t: in_scope(_schema["id"]) is entered
validate_in_scope(t) ==
    /\ wk[t].pc = "resolving"
    /\ LET scope == heap.shared[TheResolver.v].v.resolution_scope.v
       IN  /\ wk' = [wk EXCEPT ![t] =
                        [pc |-> "in_scope", kind |-> "validate",
                         name |-> wk[t].name, data |-> wk[t].data,
                         old |-> wk[t].old, old_scope |-> scope]]
           /\ heap' = in_scope(heap, urljoin(scope, Key(store.v[wk[t].name].v["id"])))
    /\ UNCHANGED <<host, path, version, _schemas, store, held, resources, pc,
                   cur, loopVars, raised, nodes>>

\* Draft4Validator.validate in thread t: the keywords are checked (the
\* references inside the snapshot are absolute) and in_scope is left
validate_iter_errors(t) ==
    /\ wk[t].pc = "in_scope"
    /\ \E outcome \in iter_errors(schema_path(host, path), store,
                                  store.v[wk[t].name], wk[t].data) :
          wk' = [wk EXCEPT ![t] =
                    [pc |-> "validated", kind |-> "validate",
                     name |-> wk[t].name, data |-> wk[t].data,
                     old |-> wk[t].old, outcome |-> outcome]]
    /\ heap' = in_scope(heap, wk[t].old_scope)
    /\ UNCHANGED <<host, path, version, _schemas, store, held, resources, pc,
                   cur, loopVars, raised, nodes>>

\* Api.validate in thread t: `resolving` is left, validate returns or raises
validate_return(t) ==
    /\ wk[t].pc = "validated"
    /\ wk' = [wk EXCEPT ![t] =
                 [pc |-> "returned", kind |-> "validate", name |-> wk[t].name,
                  data |-> wk[t].data, order |-> <<>>,
                  result |-> wk[t].outcome]]
    /\ heap' = in_scope(heap, wk[t].old)
    /\ UNCHANGED <<host, path, version, _schemas, store, held, resources, pc,
                   cur, loopVars, raised, nodes>>

\* the response is sent: thread t drops what it made and is free again
respond(t) ==
    /\ wk[t].pc = "returned"
    /\ wk' = [wk EXCEPT ![t] = [pc |-> "idle"]]
    /\ heap' = [heap EXCEPT ![t] = <<>>]
    /\ UNCHANGED <<host, path, version, _schemas, store, held, resources, pc,
                   cur, loopVars, raised, nodes>>

\* request bodies validated against Student
Bodies == {Dict([name |-> S("alice")]), Dict([name |-> Num(1)])}

\* setup is over: the registry and the resource are what the shared objects
\* hold, the snapshot is current, every thread is free
InitRequests ==
    /\ \E h \in HostArgs, p \in PathArgs : ApiPaths(h, p)
    /\ version \in VersionArgs
    /\ heap = [x \in Threads \cup {"shared"} |->
                  IF x = "shared" THEN SetUp(schema_path(host, path)) ELSE <<>>]
    /\ _schemas = RegistryOf(heap.shared)
    /\ resources = (Students :> ResourceOf(heap.shared))
    /\ store = schemas(host, path, _schemas)
    /\ held = String(Bool(TRUE))
    /\ pc = "serving"
    /\ cur = [op |-> "serve"]
    /\ todo = <<>>
    /\ skip = {}
    /\ to_check = <<>>
    /\ expanded = EmptyMap
    /\ before = NoCall
    /\ raised = "none"
    /\ nodes = [t \in Threads |-> <<>>]
    /\ wk = [t \in Threads |-> [pc |-> "idle"]]

NextRequests ==
    \E t \in Threads :
        \/ serve_schemas(t)
        \/ serve_api_doc(t)
        \/ serve_loop(t)
        \/ serve_return(t)
        \/ \E d \in Bodies : validate_resolving(t, "Student", d)
        \/ validate_in_scope(t)
        \/ validate_iter_errors(t)
        \/ validate_return(t)
        \/ respond(t)

SpecRequests == InitRequests /\ [][NextRequests]_vars

\* what the request thread t has served returns when no other request runs
Alone(t) ==
    CASE wk[t].kind = "schemas" -> {schemas(host, path, _schemas)}
      [] wk[t].kind = "api_doc" ->
             {resource_api_doc(host, path, version, _schemas,
                               resources[Students], wk[t].order)}
      [] wk[t].kind = "validate" ->
             ValidateOutcomes(schema_path(host, path), store, wk[t].name,
                              wk[t].data)

\* C18: once registration is over, however render_all, api_doc and validate
\* requests of concurrent threads interleave, the definitions of the
\* registry, the closure of the resource and the operations of its endpoint
\* are what they were, and each request returns what it returns when it
\* runs alone.
C18_RequestsIndependent ==
    /\ RegistryOf(heap.shared) = _schemas
    /\ ResourceOf(heap.shared) = resources[Students]
    /\ \A t \in Threads : wk[t].pc = "returned" => wk[t].result \in Alone(t)

\* a validate request started while the validator of another thread was
\* inside the scope of the definition it checks
C18_ValidateRaceReached ==
    /\ wk["a"].pc = "in_scope"
    /\ wk["b"].pc = "returned"
    /\ wk["b"].kind = "validate"
    /\ wk["b"].result = "RefResolutionError"
    /\ "none" \in Alone("b")

-----------------------------------------------------------------------------
(* Handlers bound to endpoints, and calls repeated (SpecBind) *)

\* a request handler class
Class(name) == [t |-> "type", v |-> name]

\* the handler of each endpoint of paths, for the resource r
Handlers(r, paths) == [e \in paths |-> r.apis[e].v.handler]

\* _EndPoint.bind(handler)
bind(rpath, epath, handler) ==
    /\ pc = "idle"
    /\ rpath \in DOMAIN resources
    /\ epath \in DOMAIN resources[rpath].apis
    /\ resources' = [resources EXCEPT ![rpath].apis[epath].v.handler = handler]
    /\ cur' = [op |-> "bind", resource |-> rpath, handler |-> handler,
               was |-> Handlers(resources[rpath], {epath})]
    /\ raised' = "none"
    /\ UNCHANGED <<host, path, version, _schemas, store, held, pc, loopVars,
                   walkVars>>

\* MetaRequestHandler.__init__ for a class cls whose `path` attribute is an
\* endpoint or several endpoints of the resource at rpath: each is bound
MetaRequestHandler(cls, rpath, paths) ==
    /\ pc = "idle"
    /\ rpath \in DOMAIN resources
    /\ paths # {}
    /\ paths \subseteq DOMAIN resources[rpath].apis
    /\ resources' =
           [resources EXCEPT
               ![rpath].apis =
                   [e \in DOMAIN @ |->
                       IF e \in paths THEN [@[e] EXCEPT !.v.handler = cls]
                       ELSE @[e]]]
    /\ cur' = [op |-> "class", resource |-> rpath, handler |-> cls,
               was |-> Handlers(resources[rpath], paths)]
    /\ raised' = "none"
    /\ UNCHANGED <<host, path, version, _schemas, store, held, pc, loopVars,
                   walkVars>>

\* Api.routes: the three routes of the Api, then one per endpoint; order: the
\* order in which the endpoints <<resource path, endpoint path>> are met
routes(prefix, res, order) ==
    [prefix |-> Str(prefix),
     routes |->
         <<[template |-> Str(prefix \o <<"/api-docs">>),
            handler |-> "api_doc_handler"],
           [template |-> Str(prefix \o <<"/api-docs/<path:.+>">>),
            handler |-> "apis_handler"],
           [template |-> Str(prefix \o <<"/json-schemas">>),
            handler |-> "schema_handler"]>>
         \o [i \in 1..Len(order) |->
                [template |-> Str(prefix \o order[i][2]),
                 handler |-> res[order[i][1]].apis[order[i][2]].v.handler]]]

\* the endpoints of the resources, each as <<resource path, endpoint path>>
EndPoints(res) ==
    UNION {{<<r, e>> : e \in DOMAIN res[r].apis} : r \in DOMAIN res}

\* Api.routes()
get_routes ==
    /\ pc = "idle"
    /\ \E order \in Orders(EndPoints(resources)) :
          cur' = [op |-> "routes", order |-> order,
                  value |-> routes(path, resources, order)]
    /\ raised' = "none"
    /\ UNCHANGED <<host, path, version, _schemas, store, held, resources, pc,
                   loopVars, walkVars>>

StudentsRoot == <<"/students/">>

\* the calls of a setup: resources (also with another description),
\* endpoints, the definition of StudentList, operations, handlers bound by
\* bind and by class declarations, and the routes
NextBind ==
    \/ \E rpath \in {Courses, Students}, desc \in Descriptions :
          resource(rpath, desc)
    \/ \E epath \in {StudentsById, StudentsRoot} : endpoint(Students, epath)
    \/ schema("StudentList", Dict([name |-> String(None)]), Bool(FALSE),
              List(<<>>), None, <<"name">>)
    \/ NewOperation
    \/ operation_param
    \/ add_model_loop
    \/ deco
    \/ bind(Students, StudentsById, Class("Other"))
    \/ \E paths \in {{StudentsById}, {StudentsById, StudentsRoot}} :
          MetaRequestHandler(Class("Handler"), Students, paths)
    \/ get_routes

SpecBind == Init /\ [][NextBind]_vars

\* C19: an endpoint is bound at most once: when bind is called, or a handler
\* class is declared, for an endpoint that has a handler already, the
\* endpoint keeps that handler; and the route of an endpoint refers to the
\* handler of the endpoint.
C19_BoundOnce ==
    /\ cur.op \in {"bind", "class"} =>
          \A e \in DOMAIN cur.was :
              cur.was[e] # None =>
                  resources[cur.resource].apis[e].v.handler = cur.was[e]
    /\ cur.op = "routes" =>
          \A i \in 1..Len(cur.order) :
              cur.value.routes[3 + i].handler
                  = resources[cur.order[i][1]].apis[cur.order[i][2]].v.handler

\* bind was called for an endpoint bound to Handler by a class declaration:
\* the endpoint now refers to the other class
C19_ReboundReached ==
    /\ cur.op = "bind"
    /\ cur.was[StudentsById] = Class("Handler")
    /\ resources[Students].apis[StudentsById].v.handler = Class("Other")

\* C20: a call of resource for a path that has a resource (also with another
\* description) and a call of endpoint for a path that has an endpoint leave
\* every resource as it is: description, endpoints, operations, bound
\* handlers and closure; a call of resource adds one resource when the path
\* is new and none otherwise, so there is one resource per distinct path.
C20_CallsRepeated ==
    [][/\ (cur'.op = "resource" /\ cur'.resource \in DOMAIN resources)
              => resources' = resources
       /\ cur'.op = "resource"
              => /\ DOMAIN resources' = DOMAIN resources \cup {cur'.resource}
                 /\ resources'[cur'.resource].path = cur'.resource
       /\ (/\ cur'.op = "endpoint"
           /\ cur'.endpoint \in DOMAIN resources[cur'.resource].apis)
              => resources' = resources]_vars

\* resource was called with another description for a path whose resource
\* has an endpoint with an operation and a handler, and a closure
C20_Witness ==
    /\ cur.op = "resource"
    /\ cur.resource = Students
    /\ cur.desc # resources[Students].description
    /\ StudentsById \in DOMAIN resources[Students].apis
    /\ resources[Students].apis[StudentsById].v.operations.v # <<>>
    /\ resources[Students].apis[StudentsById].v.handler # None
    /\ resources[Students].models # {}

\* endpoint was called for a path whose endpoint has an operation and a
\* handler
C20_EndPointAgainReached ==
    /\ cur.op = "endpoint"
    /\ cur.endpoint = StudentsById
    /\ resources[Students].apis[StudentsById].v.operations.v # <<>>
    /\ resources[Students].apis[StudentsById].v.handler # None

-----------------------------------------------------------------------------
(* C21: Api.ref reserves a placeholder and nothing else *)

\* the step is a call of Api.schema that returns, for a name that is a
\* placeholder
DefinesPlaceholder ==
    /\ cur'.op = "schema"
    /\ raised' = "none"
    /\ cur'.name \in DOMAIN _schemas
    /\ _schemas[cur'.name] = None

\* C21: reference(name) never fails and changes no existing entry: a name
\* that is no key yet becomes a placeholder and no other key appears, a name
\* that is a key (defined or placeholder) leaves the registry as it was, the
\* snapshot validate reads is untouched, and a later define(name) that
\* returns puts the definition in the placeholder's place.
C21_RefReserves ==
    [][/\ (cur'.op = "ref") =>
             /\ raised' = "none"
             /\ \A n \in DOMAIN _schemas :
                    n \in DOMAIN _schemas' /\ _schemas'[n] = _schemas[n]
             /\ DOMAIN _schemas' = DOMAIN _schemas \cup {cur'.name}
             /\ cur'.name \notin DOMAIN _schemas => _schemas'[cur'.name] = None
             /\ store' = store
       /\ DefinesPlaceholder =>
             /\ _schemas'[cur'.name] # None
             /\ _schemas'[cur'.name].t = "Object"
             /\ _schemas'[cur'.name].v.id = S(cur'.name)
             /\ DOMAIN _schemas'[cur'.name].v.properties.v
                    = (IF cur'.properties = None THEN {}
                       ELSE DOMAIN cur'.properties.v)
             /\ DOMAIN _schemas' = DOMAIN _schemas
             /\ cur'.name \in DOMAIN schemas(host, path, _schemas').v]_vars

\* Api.ref was called for a name while another name was defined: the name is
\* a placeholder and the definition is still there
C21_Witness ==
    /\ cur.op = "ref"
    /\ cur.name \in DOMAIN _schemas
    /\ _schemas[cur.name] = None
    /\ \E n \in Defined(_schemas) : n # cur.name

\* Api.ref was called for a name that is defined: the definition is kept
C21_RefOfDefinedReached ==
    /\ cur.op = "ref"
    /\ cur.name \in Defined(_schemas)

\* a placeholder that a definition refers to was defined afterwards
C21_PlaceholderDefinedReached ==
    /\ cur.op = "schema"
    /\ raised = "none"
    /\ cur.name = "Student"
    /\ cur.properties = None
    /\ RefersTo(_schemas, "StudentList", "students", "Student")

-----------------------------------------------------------------------------
(* C22: Api.schema and the required flag of a property node the caller keeps *)

\* the rendered definition of n lists the property k as required
ListsRequired(n, k) ==
    LET doc == schemas(host, path, _schemas).v[n]
    IN  /\ "required" \in DOMAIN doc.v
        /\ \E i \in 1..Len(doc.v["required"].v) : doc.v["required"].v[i] = S(k)

\* the last call was a define that returned and was given the node the caller
\* built as String(required=True) for its property k
DefinedWithHeld(k) ==
    /\ cur.op = "schema"
    /\ raised = "none"
    /\ cur.properties # None
    /\ k \in DOMAIN cur.properties.v
    /\ cur.properties.v[k] = Held

\* C22: a define that is given the property node the caller marked required
\* lists that property as required in the definition it registers, whether
\* or not the node was given to a define before.
C22_RequiredNotConsumed ==
    DefinedWithHeld("name") => ListsRequired(cur.name, "name")

\* the node was given to a second define: Api.schema had set its required to
\* None, and the second definition has no required list
C22_ConsumedReached ==
    /\ DefinedWithHeld("name")
    /\ held.v.required = None
    /\ _schemas[cur.name].v.required = None
    /\ \E n \in Defined(_schemas) : n # cur.name /\ ListsRequired(n, "name")

\* the node was given to a define for the first time and is listed
C22_FirstDefineReached ==
    /\ DefinedWithHeld("name")
    /\ ListsRequired(cur.name, "name")

-----------------------------------------------------------------------------
(* C23: _EndPoint.operation that ends in ValueError (SpecOperation) *)

\* arguments of _EndPoint.operation of which some name a type that is no
\* registry key ("Ghost" is never registered): as the response type, as the
\* items type, and as the type of a Param that follows a registered type
DefinitionErrorArgs ==
    {OperationArg("StudentList", None, Tuple(<<Param("string")>>)),
     OperationArg("Ghost", None, Tuple(<<>>)),
     OperationArg("array", _Ref(S("Ghost"), None), Tuple(<<>>)),
     OperationArg("Student", None, Tuple(<<Param("Ghost")>>)),
     OperationArg("void", None, Tuple(<<Param("Course"), Param("Ghost")>>))}

RegisterOperation ==
    \E a \in DefinitionErrorArgs, meth \in Methods :
        /\ Students \in DOMAIN resources
        /\ StudentsById \in DOMAIN resources[Students].apis
        /\ \A i \in DOMAIN resources[Students].apis[StudentsById].v.operations.v :
              resources[Students].apis[StudentsById].v.operations.v[i].v.method
                  # S(upper(meth.name))
        /\ operation(Students, StudentsById, a.type_, None, a.items, a.parameters,
                     Tuple(<<>>), meth)

NextOperation ==
    \/ RefAny
    \/ Define
    \/ NewResource
    \/ NewEndPoint
    \/ RegisterOperation
    \/ operation_param
    \/ add_model_loop
    \/ deco

SpecOperation == Init /\ [][NextOperation]_vars

\* the last call was an operation() that ended in ValueError
OperationFailed ==
    /\ pc = "idle"
    /\ cur.op = "operation"
    /\ raised = "ValueError"

\* C23: when operation() ends in ValueError the closure of its resource and
\* the operations of its endpoint are what they were when it was called.
C23_FailedOperationNoEffect ==
    OperationFailed =>
        /\ resources[cur.resource].models = cur.was.models
        /\ resources[cur.resource].apis[cur.endpoint].v.operations
               = cur.was.apis[cur.endpoint].v.operations

\* operation() failed on its Param after add_model had put the response type
\* in the closure
C23_ClosureGrewReached ==
    /\ OperationFailed
    /\ cur.type_ = "Student"
    /\ cur.was.models = {}
    /\ resources[cur.resource].models = {"Student"}
    /\ resources[cur.resource].apis[cur.endpoint].v.operations.v = <<>>

-----------------------------------------------------------------------------
(* C24: the walk on definitions that refer to themselves and to each other
   (SpecTerminate) *)

\* Api._schemas after schema("Node", {"next": ref("Node"),
\* "children": Array(items=ref("Node"))}): a definition that refers to itself
SelfRegistry ==
    <<_Ref(S("Node"), None),
      _Ref(S("Node"), None),
      Array(Ptr(2), None),
      Dict([next |-> Ptr(1), children |-> Ptr(3)]),
      Object(S("Node"), Ptr(4), None, None, Bool(FALSE)),
      Dict([Node |-> Ptr(5)])>>

\* Api._schemas after ref("Course"), schema("Student", {"course":
\* ref("Course")}) and schema("Course", {"students":
\* Array(items=ref("Student"))}): two definitions that refer to each other
MutualRegistry ==
    <<_Ref(S("Course"), None),
      Dict([course |-> Ptr(1)]),
      Object(S("Student"), Ptr(2), None, None, Bool(FALSE)),
      _Ref(S("Student"), None),
      Array(Ptr(4), None),
      Dict([students |-> Ptr(5)]),
      Object(S("Course"), Ptr(6), None, None, Bool(FALSE)),
      Dict([Student |-> Ptr(3), Course |-> Ptr(7)])>>

\* Api._schemas with an array of arrays of references, and a placeholder
NestedRegistry ==
    <<_Ref(S("Matrix"), None),
      Array(Ptr(1), None),
      Array(Ptr(2), None),
      Dict([rows |-> Ptr(3)]),
      Object(S("Matrix"), Ptr(4), None, None, Bool(FALSE)),
      Dict([Matrix |-> Ptr(5), Ghost |-> None])>>

CyclicRegistries == {SelfRegistry, MutualRegistry, NestedRegistry}

\* _Resource.api_doc up to the loop of to_dict, for a resource without
\* endpoints whose closure is `models`; the registry is the object at wk.root
resource_api_doc_call(rpath, models) ==
    /\ pc = "idle"
    /\ heap # <<>>
    /\ LET reg == heap[wk.root.v].v
           n == Len(heap)
           local == heap \o
               <<Dict([m \in {x \in models : reg[x] # None} |-> reg[m]]),
                 List(<<>>),
                 Dict([apiVersion |-> str(version),
                       swaggerVersion |-> swagger_version,
                       basePath |-> Str(base_path(host, path)),
                       resourcePath |-> Str(rpath),
                       apis |-> Ptr(n + 2),
                       models |-> Ptr(n + 1)])>>
           r == copy(local, Len(local))
       IN  /\ heap' = r.heap
           /\ nodes' = <<r.at>>
           /\ wk' = [root |-> wk.root,
                     ctx |-> _Context(ApiOf(host, path), SWAGGER_DOC),
                     clone |-> r.at, input |-> heap]
    /\ pc' = "walk"
    /\ UNCHANGED <<host, path, version, _schemas, store, held, resources, cur,
                   loopVars, raised>>

ConstructCyclic == \E in \in CyclicRegistries : construct(in)

\* the documents are rendered on a registry as it was constructed; the
\* closure of the resource holds every key of the registry
RenderCyclic ==
    \/ heap \in CyclicRegistries /\ schemas_call
    \/ /\ heap \in {SelfRegistry, MutualRegistry}
       /\ resource_api_doc_call(Students, DOMAIN heap[wk.root.v].v)

NextTerminate == ConstructCyclic \/ RenderCyclic \/ to_dict_loop \/ to_dict_return

\* to_dict is sequential code: its loop takes its next turn, and it returns
\* when the loop ends
SpecTerminate ==
    /\ Init
    /\ [][NextTerminate]_vars
    /\ WF_vars(to_dict_loop)
    /\ WF_vars(to_dict_return)

\* the objects to_dict has made so far
Made == (Len(wk.input) + 1)..Len(heap)

\* the conversions of the definition called name that to_dict has made
Conversions(name) ==
    {a \in Made : /\ heap[a].t = "dict"
                  /\ "id" \in DOMAIN heap[a].v
                  /\ "type" \in DOMAIN heap[a].v
                  /\ heap[a].v["id"] = S(name)}

\* the entries of the document being rendered that are definitions
Entries ==
    LET doc == heap[wk.clone.v].v
    IN  IF wk.ctx.output = SWAGGER_DOC THEN DOMAIN Deref(heap, doc["models"]).v
        ELSE DOMAIN doc \ {"id", "$schema"}

\* C24: to_dict returns for every registry, definitions that refer to
\* themselves or to each other included; all along, a _Ref is rendered as a
\* mapping that holds "$ref" and a string and nothing else, a definition is
\* converted at most once, and when to_dict returns each entry of the
\* document has been converted exactly once.
C24_WalkTerminates ==
    /\ (pc = "walk") ~> (pc = "returned")
    /\ [](pc \in {"walk", "returned"} =>
            /\ \A a \in Made :
                   (heap[a].t = "dict" /\ "$ref" \in DOMAIN heap[a].v) =>
                       /\ DOMAIN heap[a].v = {"$ref"}
                       /\ heap[a].v["$ref"].t = "str"
            /\ \A name \in DOMAIN heap[wk.root.v].v :
                   Cardinality(Conversions(name)) <= 1
            /\ pc = "returned" =>
                   \A name \in DOMAIN heap[wk.root.v].v :
                       Cardinality(Conversions(name))
                           = (IF name \in Entries THEN 1 ELSE 0))

\* render_all has returned the document of the definition that refers to
\* itself
C24_Witness ==
    /\ pc = "returned"
    /\ wk.input = SelfRegistry
    /\ wk.ctx.output = JSON_SCHEMA
    /\ Deref(heap, wk.clone).v["Node"].v["properties"].v["next"]
           = Dict("$ref" :> Str(schema_path(host, path) \o <<"#", "/", "Node">>))

\* the api_doc of a resource whose closure holds the two definitions that
\* refer to each other has been returned
C24_ApiDocReached ==
    /\ pc = "returned"
    /\ wk.input = MutualRegistry
    /\ wk.ctx.output = SWAGGER_DOC
    /\ Entries = {"Student", "Course"}
    /\ Deref(heap, wk.clone).v["models"].v["Course"].v["properties"]
           .v["students"].v["items"] = Dict("$ref" :> S("Student"))

====
